---- MODULE Spec2Model ----
(***************************************************************************)
(* A model of the orchestration code of oxira: the aggregate report        *)
(* (fullResearchReport), the outbound rate limiter (RateLimiter), the      *)
(* retry policy (withRetry), the provider fallback of the search helpers   *)
(* (webSearch, runSearch, searchOne), community discovery                  *)
(* (findCommunities), competitor search (searchCompetitors), market sizing *)
(* (estimateMarketSize with extractDollarFigures and filterOutliers),      *)
(* pricing extraction (extractPricing over fetchPricingPage) and topic     *)
(* derivation (deriveTopics).  Each subsystem has its own variables and    *)
(* its own specification; a specification holds the other subsystems'      *)
(* variables at their idle values.  Two specifications compose             *)
(* subsystems: SpecComposed runs the report over extractPricing, and       *)
(* SpecClient runs a provider's search() over the limiter and withRetry.   *)
(***************************************************************************)
EXTENDS Integers, Sequences, FiniteSets, TLC

VARIABLES
    \* ---- fullResearchReport (src/src/tools/full-research-report.ts) ----
    rpc,                  \* position of fullResearchReport
    competitorsSettled,   \* outcome of searchCompetitors(...)
    marketSizeSettled,    \* outcome of estimateMarketSize(...)
    communitiesSettled,   \* outcome of findCommunities(...)
    pricingCalls,         \* competitors extractPricing was called with, in call order
    pricingSettled,       \* outcome of each extractPricing call
    report,               \* what the promise of fullResearchReport settled with
    \* ---- RateLimiter (src/src/utils/rate-limiter.ts) ----
    now,                  \* Date.now(), in ticks
    maxRequests,          \* this.maxRequests
    timestamps,           \* this.timestamps
    waiter,               \* per caller: position inside waitForSlot
    wakeAt,               \* per caller: when its setTimeout is due
    granted,              \* times at which waitForSlot calls returned
    \* ---- withRetry (src/unnamed/part_010) ----
    rtpc,                 \* position of withRetry
    maxAttempts,          \* opts.maxAttempts
    attempt,              \* the loop variable
    delay,                \* the next backoff delay, ms
    lastError,            \* lastError
    invoked,              \* number of times fn was invoked
    fnOutcomes,             \* what each invocation of fn settled with, oldest first
    retryResult,          \* what the promise of withRetry settled with
    \* ---- webSearch / runSearch / searchOne (provider fallback) ----
    spc,                  \* position inside the search helper
    queryNo,              \* how many queries the orchestrator has issued
    searchKind,           \* which helper runs: "webSearch", "runSearch" or "searchOne"
    braveClient,          \* getBraveSearchClient() is not null
    tavilyClient,         \* getTavilyClient() is not null
    providerCalls,        \* the providers whose search() was called, in call order
    providerOutcomes,     \* what each of those calls settled with
    searchLastError,      \* webSearch's lastError
    searchResult,         \* what the helper's promise settled with
    \* ---- findCommunities (src/src/tools/find-communities.ts) ----
    fpc,                  \* position of findCommunities: the batch it awaits
    topicCount,           \* topics.length
    communities,          \* const communities: Community[]
    errors,               \* const errors: string[]
    attempted,            \* the batches attempted so far, with whether each failed
    fcResult,             \* what the promise of findCommunities settled with
    \* ---- searchCompetitors (src/unnamed/part_005) ----
    cpc,                  \* position of searchCompetitors
    maxResults,           \* input.max_results
    runSearchSettled,     \* outcome of runSearch(queries, countPerQuery)
    g2Settled,            \* outcome of mineG2Category(industry, searchOne)
    dedupedResults,       \* const dedupedResults, scored and sorted
    fetchLog,             \* the fetchAsMarkdown calls made, with their outcomes
    scCompetitors,        \* const competitors: Competitor[]
    scResult,             \* what the promise of searchCompetitors settled with
    \* ---- extractDollarFigures (src/src/tools/estimate-market-size.ts) ----
    lastIndex,            \* lastIndex of each of the three shared dollarPatterns
    figureCalls,          \* how many times extractDollarFigures was called
    figureText,           \* the text of the latest call
    figureResult,         \* what the latest call returned
    \* ---- filterOutliers (src/src/tools/estimate-market-size.ts) ----
    outlierValues,        \* the argument of filterOutliers
    outlierResult,        \* what filterOutliers returned, once it has
    \* ---- estimateMarketSize (src/src/tools/estimate-market-size.ts) ----
    mpc,                  \* position of estimateMarketSize
    narrowSettled,        \* outcome of runSearch(narrowQuery, 10)
    broadSettled,         \* outcome of runSearch(broadQuery, 5)
    marketCalls,          \* the provider search() calls made, with their outcome
    msLocals,             \* sources.length, primaryFigures, hasScopeMismatch at return
    msResult,             \* what the promise of estimateMarketSize settled with
    \* ---- extractPricing / fetchPricingPage (src/unnamed/part_008, web-fetcher) ----
    ppc,                  \* position of extractPricing inside fetchPricingPage
    pricingUrl,           \* input.url
    pathIndex,            \* index into pricingPaths of the path being tried
    fetchTrace,           \* the fetchAsMarkdown calls made, with their outcomes
    epResult,             \* what the promise of extractPricing settled with
    \* ---- deriveTopics (src/src/tools/full-research-report.ts) ----
    tpc,                  \* position in the topic derivation of fullResearchReport
    businessIdea,         \* input.business_idea, as its words
    productType,          \* input.product_type
    topicList,            \* const topics
    \* ---- BraveSearchClient.search / TavilyClient.search ----
    enteredRetry          \* the search() calls that went on from waitForSlot to withRetry
reportVars == <<rpc, competitorsSettled, marketSizeSettled, communitiesSettled,
                pricingCalls, pricingSettled, report>>
limiterVars == <<now, maxRequests, timestamps, waiter, wakeAt, granted>>
retryVars == <<rtpc, maxAttempts, attempt, delay, lastError, invoked, fnOutcomes, retryResult>>
searchVars == <<spc, queryNo, searchKind, braveClient, tavilyClient, providerCalls,
                providerOutcomes, searchLastError, searchResult>>
communityVars == <<fpc, topicCount, communities, errors, attempted, fcResult>>
competitorVars == <<cpc, maxResults, runSearchSettled, g2Settled, dedupedResults,
                    fetchLog, scCompetitors, scResult>>
\* the variables of the tools modelled after findCommunities
figureVars == <<lastIndex, figureCalls, figureText, figureResult>>
outlierVars == <<outlierValues, outlierResult>>
marketVars == <<mpc, narrowSettled, broadSettled, marketCalls, msLocals, msResult>>
pricingVars == <<ppc, pricingUrl, pathIndex, fetchTrace, epResult>>
topicVars == <<tpc, businessIdea, productType, topicList>>
clientVars == <<enteredRetry>>
toolVars == <<competitorVars, figureVars, outlierVars, marketVars, pricingVars, topicVars,
              clientVars>>
vars == <<reportVars, limiterVars, retryVars, searchVars, communityVars, toolVars>>

\* ------------------------------------------------------------------ helpers
Min(a, b) == IF a <= b THEN a ELSE b
Max(a, b) == IF a >= b THEN a ELSE b
\* JS Array.prototype.slice(0, n)
SliceTo(s, n) == SubSeq(s, 1, Min(n, Len(s)))
\* A nullable / optional JS value: null (or an absent key) is <<>>, a value v is <<v>>.
Null == <<>>
Some(v) == <<v>>

\* ------------------------------------------------------------------ bounds
\* the most competitors searchCompetitors returns in the model
MaxCompetitors == 4
\* concurrent callers of one RateLimiter
NumCallers == 3
\* the largest maxRequests a RateLimiter is constructed with
MaxRequestsBound == 2
\* windowMs of the RateLimiter, in clock ticks
WindowTicks == 3
\* the clock stops here
MaxTime == 7
\* the largest maxAttempts option passed to withRetry
MaxAttemptsOption == 4
\* the most hits one provider response carries
MaxHits == 2
\* the most queries an orchestrator issues one after the other
MaxQueries == 2
\* the most topics findCommunities is called with
MaxTopics == 3

\* ======================================================================
\* fullResearchReport
\* ======================================================================
Pending == [status |-> "pending"]
Fulfilled(v) == [status |-> "fulfilled", value |-> v]
Rejected(r) == [status |-> "rejected", reason |-> r]
\* What a sub-operation can reject with: an Error carrying a message, or a
\* thrown value that is no Error.
Reasons == {[isError |-> TRUE, message |-> "boom"], [isError |-> FALSE, message |-> ""]}
\* Competitor lists: the i-th competitor is named by its rank i.
CompetitorLists == {[i \in 1..n |-> i] : n \in 0..MaxCompetitors}
\* estimateMarketSize results: only tam_estimate.low is read by the report.
MarketValues == {[low |-> "Unknown"], [low |-> "$1B"]}
\* findCommunities results: the platforms of the communities found.
CommunityLists == {<<>>, <<"Reddit">>}
\* extractPricing result for competitor c
PricingValue(c) == [url |-> c]

\* settledToSection with a successful empty list reported as a failure
settledToSectionEmptyIsNull(result) ==
    IF result.status = "fulfilled" /\ DOMAIN result.value # {}
    THEN [data |-> Some(result.value), error |-> Null]
    ELSE [data |-> Null,
          error |-> Some(IF result.status = "rejected" /\ result.reason.isError
                         THEN result.reason.message ELSE "Unknown error")]

\* settledToSection, lines 71-82
settledToSection(result) ==
    IF result.status = "fulfilled"
    THEN [data |-> Some(result.value), error |-> Null]
    ELSE [data |-> Null,
          error |-> Some(IF result.reason.isError THEN result.reason.message
                         ELSE "Unknown error")]

\* Promise.all in the place of Promise.allSettled: rejects with the first rejection
AllSettledAsAll(results) ==
    IF \E i \in 1..Len(results) : results[i].status = "rejected"
    THEN Rejected(SelectSeq(results, LAMBDA o : o.status = "rejected")[1].reason)
    ELSE Fulfilled(results)

\* Promise.allSettled: fulfils with the list of results, whatever they are.
AllSettled(results) == Fulfilled(results)

\* every competitor in the place of the top three
topCompetitorsAll(data) == data

\* competitorsSection.data.slice(0, 3), line 208
TopCount == 3
topCompetitors(data) == SliceTo(data, TopCount)

IsFulfilled(r) == r.status = "fulfilled"
IsRejected(r) == r.status = "rejected"
\* lines 216-221: pricingSettled.filter(fulfilled).map((r) => r.value)
succeededOf(settled) ==
    LET kept == SelectSeq(settled, IsFulfilled)
    IN [i \in 1..Len(kept) |-> kept[i].value]
\* lines 223-227: pricingSettled.filter(rejected).map(message or "Unknown error")
failedMessagesOf(settled) ==
    LET kept == SelectSeq(settled, IsRejected)
    IN [i \in 1..Len(kept) |->
           IF kept[i].reason.isError THEN kept[i].reason.message ELSE "Unknown error"]

\* the pricing section with `data: succeeded`, never null
PricingSectionNeverNull(settled) ==
    LET succeeded == succeededOf(settled)
        failedMessages == failedMessagesOf(settled)
    IN [data |-> Some(succeeded),
        error |-> IF Len(failedMessages) > 0
                  THEN Some([count |-> Len(failedMessages), messages |-> failedMessages])
                  ELSE Null]

\* lines 216-234: the pricing section from the settled extractPricing calls
PricingSectionOf(settled) ==
    LET succeeded == succeededOf(settled)
        failedMessages == failedMessagesOf(settled)
    IN [data |-> IF Len(succeeded) > 0 THEN Some(succeeded) ELSE Null,
        error |-> IF Len(failedMessages) > 0
                  THEN Some([count |-> Len(failedMessages), messages |-> failedMessages])
                  ELSE Null]

\* the pricing takeaway with the error tested before the data
pricingTakeawayErrorFirst(pricing) ==
    IF pricing.error # Null
    THEN [takeaways |-> <<>>, failed |-> <<"pricing">>]
    ELSE IF pricing.data # Null /\ Len(pricing.data[1]) > 0
         THEN [takeaways |-> <<"pricing">>, failed |-> <<>>]
         ELSE [takeaways |-> <<"pricing_none">>, failed |-> <<>>]

\* generateSummary, lines 147-170: the pricing takeaway.  A present error of the
\* pricing section is a non-empty string, which JS treats as true.
pricingTakeaway(pricing) ==
    IF pricing.data # Null /\ Len(pricing.data[1]) > 0
    THEN [takeaways |-> <<"pricing">>, failed |-> <<>>]
    ELSE IF pricing.error # Null
         THEN [takeaways |-> <<>>, failed |-> <<"pricing">>]
         ELSE [takeaways |-> <<"pricing_none">>, failed |-> <<>>]

\* generateSummary, lines 84-173.  A section's data, when present, is an object
\* or an array, which JS treats as true even when empty.
generateSummary(competitors, marketSize, communityList, pricing) ==
    LET market == IF marketSize.data # Null
                  THEN [takeaways |-> <<IF marketSize.data[1].low # "Unknown"
                                        THEN "market_size" ELSE "market_size_unavailable">>,
                        failed |-> <<>>]
                  ELSE [takeaways |-> <<>>, failed |-> <<"market_size">>]
        comp == IF competitors.data # Null
                THEN [takeaways |-> <<"competitors">>, failed |-> <<>>]
                ELSE [takeaways |-> <<>>, failed |-> <<"competitors">>]
        comm == IF communityList.data # Null
                THEN [takeaways |-> <<"communities">>, failed |-> <<>>]
                ELSE [takeaways |-> <<>>, failed |-> <<"communities">>]
        price == pricingTakeaway(pricing)
    IN [key_takeaways |-> market.takeaways \o comp.takeaways \o comm.takeaways
                          \o price.takeaways,
        failed_sections |-> market.failed \o comp.failed \o comm.failed \o price.failed]

\* lines 239-255: the report object
ReportOf(marketSizeSection, competitorsSection, communitiesSection, pricingSection) ==
    [market_size |-> marketSizeSection,
     competitors |-> competitorsSection,
     communities |-> communitiesSection,
     pricing |-> pricingSection,
     summary |-> generateSummary(competitorsSection, marketSizeSection,
                                 communitiesSection, pricingSection)]

NoReport == [status |-> "pending"]

\* a step of the report leaves the other subsystems alone
ReportOnly == UNCHANGED <<limiterVars, retryVars, searchVars, communityVars, toolVars>>

ReportInit ==
    /\ rpc = "start"
    /\ competitorsSettled = Pending
    /\ marketSizeSettled = Pending
    /\ communitiesSettled = Pending
    /\ pricingCalls = <<>>
    /\ pricingSettled = <<>>
    /\ report = NoReport

ReportIdle ==
    /\ rpc = "idle"
    /\ competitorsSettled = Pending
    /\ marketSizeSettled = Pending
    /\ communitiesSettled = Pending
    /\ pricingCalls = <<>>
    /\ pricingSettled = <<>>
    /\ report = NoReport

\* an Error value as withRetry sees it: whether it is an Error instance and which
\* of the signatures its message includes
NoError == [isError |-> FALSE, sigs |-> {}]

RetryIdle ==
    /\ rtpc = "idle"
    /\ maxAttempts = 0
    /\ attempt = 0
    /\ delay = 0
    /\ lastError = NoError
    /\ invoked = 0
    /\ fnOutcomes = <<>>
    /\ retryResult = Pending

SearchIdle ==
    /\ spc = "idle"
    /\ queryNo = 0
    /\ searchKind = "webSearch"
    /\ braveClient = FALSE
    /\ tavilyClient = FALSE
    /\ providerCalls = <<>>
    /\ providerOutcomes = <<>>
    /\ searchLastError = Null
    /\ searchResult = Pending

CommunitiesIdle ==
    /\ fpc = [phase |-> "idle", index |-> 0]
    /\ topicCount = 0
    /\ communities = <<>>
    /\ errors = <<>>
    /\ attempted = <<>>
    /\ fcResult = Pending

CompetitorsIdle ==
    /\ cpc = "idle"
    /\ maxResults = 0
    /\ runSearchSettled = Pending
    /\ g2Settled = Pending
    /\ dedupedResults = <<>>
    /\ fetchLog = <<>>
    /\ scCompetitors = <<>>
    /\ scResult = Pending

\* the tools modelled after findCommunities are not running
\* module load, lines 15-22: the patterns are created with lastIndex 0
FiguresIdle ==
    /\ lastIndex = [p \in 1..3 |-> 0]
    /\ figureCalls = 0
    /\ figureText = <<>>
    /\ figureResult = <<>>

OutliersIdle ==
    /\ outlierValues = <<>>
    /\ outlierResult = Null

MarketIdle ==
    /\ mpc = "idle"
    /\ narrowSettled = Pending
    /\ broadSettled = Pending
    /\ marketCalls = <<>>
    /\ msLocals = Null
    /\ msResult = Pending

PricingIdle ==
    /\ ppc = "idle"
    /\ pricingUrl = [parseable |-> TRUE, looksPricing |-> TRUE]
    /\ pathIndex = 0
    /\ fetchTrace = <<>>
    /\ epResult = Pending

TopicsIdle ==
    /\ tpc = "idle"
    /\ businessIdea = <<>>
    /\ productType = Null
    /\ topicList = <<>>

ClientIdle == enteredRetry = {}

ToolsIdle ==
    /\ ClientIdle
    /\ CompetitorsIdle
    /\ FiguresIdle
    /\ OutliersIdle
    /\ MarketIdle
    /\ PricingIdle
    /\ TopicsIdle

LimiterIdle ==
    /\ now = 0
    /\ maxRequests = 1
    /\ timestamps = <<>>
    /\ waiter = <<>>
    /\ wakeAt = <<>>
    /\ granted = <<>>

\* lines 175-198: the three branches are started together
StartBranches ==
    /\ rpc = "start"
    /\ rpc' = "branches"
    /\ UNCHANGED <<competitorsSettled, marketSizeSettled, communitiesSettled,
                   pricingCalls, pricingSettled, report>>
    /\ ReportOnly

\* searchCompetitors settles (its promise fulfils with a list or rejects)
SettleCompetitors ==
    /\ rpc = "branches"
    /\ competitorsSettled = Pending
    /\ \E o \in {Fulfilled(v) : v \in CompetitorLists} \cup {Rejected(r) : r \in Reasons} :
          competitorsSettled' = o
    /\ UNCHANGED <<rpc, marketSizeSettled, communitiesSettled, pricingCalls,
                   pricingSettled, report>>
    /\ ReportOnly

\* estimateMarketSize settles
SettleMarketSize ==
    /\ rpc = "branches"
    /\ marketSizeSettled = Pending
    /\ \E o \in {Fulfilled(v) : v \in MarketValues} \cup {Rejected(r) : r \in Reasons} :
          marketSizeSettled' = o
    /\ UNCHANGED <<rpc, competitorsSettled, communitiesSettled, pricingCalls,
                   pricingSettled, report>>
    /\ ReportOnly

\* findCommunities settles
SettleCommunities ==
    /\ rpc = "branches"
    /\ communitiesSettled = Pending
    /\ \E o \in {Fulfilled(v) : v \in CommunityLists} \cup {Rejected(r) : r \in Reasons} :
          communitiesSettled' = o
    /\ UNCHANGED <<rpc, competitorsSettled, marketSizeSettled, pricingCalls,
                   pricingSettled, report>>
    /\ ReportOnly

\* lines 193-237: the continuation of `await Promise.allSettled([...])`.  It runs
\* once the three branches have settled; an await of a rejected promise throws,
\* which rejects fullResearchReport.  With competitors it starts the
\* extractPricing calls; without it finishes the report.
JoinBranches ==
    /\ rpc = "branches"
    /\ competitorsSettled # Pending
    /\ marketSizeSettled # Pending
    /\ communitiesSettled # Pending
    /\ LET joined == AllSettled(<<competitorsSettled, marketSizeSettled,
                                  communitiesSettled>>)
       IN IF joined.status = "rejected"
          THEN /\ rpc' = "done"
               /\ report' = Rejected(joined.reason)
               /\ UNCHANGED <<pricingCalls, pricingSettled>>
          ELSE LET competitorsSection == settledToSection(joined.value[1])
                   marketSizeSection == settledToSection(joined.value[2])
                   communitiesSection == settledToSection(joined.value[3])
               IN IF competitorsSection.data # Null
                     /\ Len(competitorsSection.data[1]) > 0
                  THEN /\ pricingCalls' = topCompetitors(competitorsSection.data[1])
                       /\ pricingSettled' = [i \in 1..Len(pricingCalls') |-> Pending]
                       /\ rpc' = "pricing"
                       /\ UNCHANGED report
                  ELSE /\ rpc' = "done"
                       /\ report' = Fulfilled(ReportOf(marketSizeSection,
                                        competitorsSection, communitiesSection,
                                        [data |-> Some(<<>>), error |-> Null]))
                       /\ UNCHANGED <<pricingCalls, pricingSettled>>
    /\ UNCHANGED <<competitorsSettled, marketSizeSettled, communitiesSettled>>
    /\ ReportOnly

\* one extractPricing call settles
SettlePricing ==
    /\ rpc = "pricing"
    /\ \E i \in 1..Len(pricingSettled) :
          /\ pricingSettled[i] = Pending
          /\ \E o \in {Fulfilled(PricingValue(pricingCalls[i]))}
                      \cup {Rejected(r) : r \in Reasons} :
                pricingSettled' = [pricingSettled EXCEPT ![i] = o]
    /\ UNCHANGED <<rpc, competitorsSettled, marketSizeSettled, communitiesSettled,
                   pricingCalls, report>>
    /\ ReportOnly

\* lines 210-255: the continuation of the second `await Promise.allSettled(...)`
JoinPricing ==
    /\ rpc = "pricing"
    /\ \A i \in 1..Len(pricingSettled) : pricingSettled[i] # Pending
    /\ LET joined == AllSettled(pricingSettled)
       IN IF joined.status = "rejected"
          THEN report' = Rejected(joined.reason)
          ELSE report' = Fulfilled(ReportOf(settledToSection(marketSizeSettled),
                                            settledToSection(competitorsSettled),
                                            settledToSection(communitiesSettled),
                                            PricingSectionOf(joined.value)))
    /\ rpc' = "done"
    /\ UNCHANGED <<competitorsSettled, marketSizeSettled, communitiesSettled,
                   pricingCalls, pricingSettled>>
    /\ ReportOnly

\* ----------------------------------------------------------------------
\* Properties of fullResearchReport
\* ----------------------------------------------------------------------
Range(s) == {s[i] : i \in 1..Len(s)}
ReportReturned == rpc = "done" /\ report.status = "fulfilled"
AllBranchesSettled ==
    /\ competitorsSettled # Pending
    /\ marketSizeSettled # Pending
    /\ communitiesSettled # Pending
AllPricingSettled == \A i \in 1..Len(pricingSettled) : pricingSettled[i] # Pending
\* the section of a branch holds that branch's own result
OwnResult(section, settled) ==
    settled.status = "fulfilled" => section = [data |-> Some(settled.value), error |-> Null]
NumRejected == Cardinality({i \in 1..Len(pricingSettled) : pricingSettled[i].status = "rejected"})

\* C1: fullResearchReport never rejects; it settles only once every sub-operation
\* has settled, it is then fulfilled with a report, and the section of every
\* fulfilled branch holds that branch's own result whatever the other branches did.
C1_NeverRejects ==
    /\ report.status # "rejected"
    /\ report.status # "pending" => AllBranchesSettled /\ AllPricingSettled
    /\ rpc = "done" =>
          /\ report.status = "fulfilled"
          /\ OwnResult(report.value.competitors, competitorsSettled)
          /\ OwnResult(report.value.market_size, marketSizeSettled)
          /\ OwnResult(report.value.communities, communitiesSettled)

\* reached: competitor search rejected, the other two branches fulfilled, and the
\* report returned with their results
C1_Witness ==
    /\ ReportReturned
    /\ competitorsSettled.status = "rejected"
    /\ marketSizeSettled.status = "fulfilled"
    /\ communitiesSettled.status = "fulfilled"
    /\ report.value.competitors.data = Null
    /\ report.value.market_size.data # Null
    /\ report.value.communities.data # Null

\* C2: in a returned report a section's data is null exactly when its operation
\* failed (pricing: extractions were attempted and all of them rejected), and an
\* operation that succeeded with nothing to report gives data [] and no error.
C2_NullIffFailed ==
    ReportReturned =>
        /\ report.value.market_size.data = Null <=> marketSizeSettled.status = "rejected"
        /\ report.value.competitors.data = Null <=> competitorsSettled.status = "rejected"
        /\ report.value.communities.data = Null <=> communitiesSettled.status = "rejected"
        /\ report.value.pricing.data = Null
              <=> (Len(pricingCalls) > 0 /\ NumRejected = Len(pricingCalls))
        /\ competitorsSettled = Fulfilled(<<>>)
              => report.value.competitors = [data |-> Some(<<>>), error |-> Null]
        /\ communitiesSettled = Fulfilled(<<>>)
              => report.value.communities = [data |-> Some(<<>>), error |-> Null]
        /\ Len(pricingCalls) = 0
              => report.value.pricing = [data |-> Some(<<>>), error |-> Null]

\* reached: a report in which community discovery succeeded with nothing found
\* and market sizing failed
C2_Witness ==
    /\ ReportReturned
    /\ communitiesSettled = Fulfilled(<<>>)
    /\ marketSizeSettled.status = "rejected"
    /\ report.value.communities.data = Some(<<>>)
    /\ report.value.market_size.data = Null

\* C3: extractPricing is not called before searchCompetitors has settled; after a
\* rejected or empty competitor search it is never called and the pricing section
\* is {data: []}; otherwise it is called once for each of the first min(3, n)
\* competitors, in order.
C3_PricingAfterCompetitors ==
    /\ Len(pricingCalls) > 0 => competitorsSettled.status = "fulfilled"
    /\ rpc \in {"pricing", "done"} =>
          IF competitorsSettled.status = "rejected" \/ competitorsSettled.value = <<>>
          THEN /\ pricingCalls = <<>>
               /\ rpc = "done"
               /\ report.status = "fulfilled"
               /\ report.value.pricing = [data |-> Some(<<>>), error |-> Null]
          ELSE /\ Len(pricingCalls) = Min(3, Len(competitorsSettled.value))
               /\ \A i \in 1..Len(pricingCalls) : pricingCalls[i] = competitorsSettled.value[i]

\* reached: four competitors found and the report returned after three extractions
C3_Witness ==
    /\ ReportReturned
    /\ competitorsSettled.status = "fulfilled"
    /\ Len(competitorsSettled.value) = 4
    /\ Len(pricingCalls) = 3

\* the fulfilled extractPricing results, in competitor order
FulfilledPricing ==
    LET idx == SelectSeq([i \in 1..Len(pricingCalls) |-> i],
                         LAMBDA i : pricingSettled[i].status = "fulfilled")
    IN [j \in 1..Len(idx) |-> PricingValue(pricingCalls[idx[j]])]

\* C4: with n extractions attempted and k rejected: if 0 < k < n the pricing
\* data is the n-k fulfilled results in competitor order, the error reports k and
\* "pricing" is not a failed section; if k = n the data is null, the error
\* reports n and "pricing" is a failed section.
C4_PartialPricing ==
    (ReportReturned /\ Len(pricingCalls) > 0) =>
        LET n == Len(pricingCalls)
            k == NumRejected
            pricing == report.value.pricing
            failed == Range(report.value.summary.failed_sections)
        IN /\ (0 < k /\ k < n) =>
                 /\ pricing.data = Some(FulfilledPricing)
                 /\ Len(pricing.data[1]) = n - k
                 /\ pricing.error # Null
                 /\ pricing.error[1].count = k
                 /\ "pricing" \notin failed
           /\ k = n =>
                 /\ pricing.data = Null
                 /\ pricing.error # Null
                 /\ pricing.error[1].count = n
                 /\ "pricing" \in failed

\* reached: three extractions, two of them rejected, one result reported
C4_Witness ==
    /\ ReportReturned
    /\ Len(pricingCalls) = 3
    /\ NumRejected = 2
    /\ Len(report.value.pricing.data[1]) = 1

\* C5: in a returned report failed_sections names a section exactly when that
\* section's data is null, and names it once.
C5_FailedSections ==
    ReportReturned =>
        LET failed == report.value.summary.failed_sections
        IN /\ \A name \in {"market_size", "competitors", "communities", "pricing"} :
                 name \in Range(failed) <=> report.value[name].data = Null
           /\ Cardinality(Range(failed)) = Len(failed)

\* reached: a report whose pricing partly failed and whose market sizing failed
C5_Witness ==
    /\ ReportReturned
    /\ NumRejected > 0
    /\ NumRejected < Len(pricingCalls)
    /\ report.value.market_size.data = Null
    /\ report.value.summary.failed_sections = <<"market_size">>

\* ======================================================================
\* RateLimiter (src/src/utils/rate-limiter.ts)
\* ======================================================================
Callers == 1..NumCallers
windowMs == WindowTicks

\* a step of the limiter leaves the other subsystems alone
LimiterOnly == UNCHANGED <<reportVars, retryVars, searchVars, communityVars, toolVars>>

\* constructor, lines 6-9: no timestamps; every caller is yet to call
LimiterInit ==
    /\ ReportIdle
    /\ ToolsIdle
    /\ RetryIdle
    /\ SearchIdle
    /\ CommunitiesIdle
    /\ now = 0
    /\ maxRequests \in 1..MaxRequestsBound
    /\ timestamps = <<>>
    /\ waiter = [c \in Callers |-> "idle"]
    /\ wakeAt = [c \in Callers |-> 0]
    /\ granted = <<>>

\* line 13 (and 29): this.timestamps.filter((t) => now - t < this.windowMs)
InWindow(ts, t0) == SelectSeq(ts, LAMBDA t : t0 - t < windowMs)
\* Array.prototype.shift: drops the first element, if there is one
Shift(ts) == IF ts = <<>> THEN <<>> ELSE Tail(ts)

\* the clock advances (timers may fire late, never early)
Tick ==
    /\ now < MaxTime
    /\ now' = now + 1
    /\ UNCHANGED <<maxRequests, timestamps, waiter, wakeAt, granted>>
    /\ LimiterOnly

\* waitForSlot, lines 11-25, up to its await: the caller either takes a slot at
\* once or sets a timer for the time the oldest timestamp leaves the window
CallWaitForSlot(c) ==
    /\ waiter[c] = "idle"
    /\ LET kept == InWindow(timestamps, now)
       IN IF Len(kept) >= maxRequests
          THEN LET oldestTimestamp == kept[1]
                   waitTime == windowMs - (now - oldestTimestamp)
               IN IF waitTime > 0
                  THEN /\ timestamps' = kept
                       /\ waiter' = [waiter EXCEPT ![c] = "waiting"]
                       /\ wakeAt' = [wakeAt EXCEPT ![c] = now + waitTime]
                       /\ UNCHANGED granted
                  ELSE /\ timestamps' = Append(Shift(kept), now)
                       /\ waiter' = [waiter EXCEPT ![c] = "granted"]
                       /\ granted' = Append(granted, now)
                       /\ UNCHANGED wakeAt
          ELSE /\ timestamps' = Append(kept, now)
               /\ waiter' = [waiter EXCEPT ![c] = "granted"]
               /\ granted' = Append(granted, now)
               /\ UNCHANGED wakeAt
    /\ UNCHANGED <<now, maxRequests>>
    /\ LimiterOnly

\* waitForSlot, lines 19-24, after its await: the timer has fired (timers fire in
\* the order they fall due); the caller shifts the array and takes a slot
TimerFires(c) ==
    /\ waiter[c] = "waiting"
    /\ now >= wakeAt[c]
    /\ \A d \in Callers : waiter[d] = "waiting" => wakeAt[d] >= wakeAt[c]
    /\ timestamps' = Append(Shift(timestamps), now)
    /\ waiter' = [waiter EXCEPT ![c] = "granted"]
    /\ granted' = Append(granted, now)
    /\ UNCHANGED <<now, maxRequests, wakeAt>>
    /\ LimiterOnly

LimiterNext ==
    \/ Tick
    \/ \E c \in Callers : CallWaitForSlot(c)
    \/ \E c \in Callers : TimerFires(c)
SpecLimiter == LimiterInit /\ [][LimiterNext]_vars

\* C6: in any rolling window of windowMs at most maxRequests calls of
\* waitForSlot are granted, concurrent callers of a full limiter included.
C6_AtMostMaxPerWindow ==
    \A i \in 1..Len(granted) :
        Cardinality({j \in 1..Len(granted) :
                        granted[j] >= granted[i] /\ granted[j] < granted[i] + windowMs})
            <= maxRequests

\* ======================================================================
\* withRetry (src/unnamed/part_010)
\* ======================================================================
\* defaultOptions, lines 8-11
DefaultMaxAttempts == 3
DelayMs == 1000
BackoffMultiplier == 2
\* the substrings the default classifier looks for, lines 16-20
RetrySignatures == {"fetch", "ECONNRESET", "ETIMEDOUT", "429", "rate limit"}
\* The values fn can throw: Errors whose message includes a signature, an Error
\* whose message includes none, and a thrown string (no Error) that includes one.
ThrownValues ==
    {[isError |-> TRUE, sigs |-> {"fetch"}],
     [isError |-> TRUE, sigs |-> {"429", "rate limit"}],
     [isError |-> TRUE, sigs |-> {}],
     [isError |-> FALSE, sigs |-> {"ETIMEDOUT"}]}
ReturnedValues == {"v1", "v2"}

\* defaultOptions.retryableErrors, lines 12-24
retryableErrors(error) == error.isError /\ error.sigs \cap RetrySignatures # {}

\* the rethrow test without the classification of the error
shouldRethrowLastAttemptOnly(n, error) == n = maxAttempts

\* line 41: attempt === opts.maxAttempts || !opts.retryableErrors(error)
shouldRethrow(n, error) == n = maxAttempts \/ ~retryableErrors(error)

\* a step of withRetry leaves the other subsystems alone
RetryOnly == UNCHANGED <<reportVars, limiterVars, searchVars, communityVars, toolVars>>

\* lines 27-33: the options are merged over the defaults; attempt starts at 1
RetryInit ==
    /\ ReportIdle
    /\ ToolsIdle
    /\ LimiterIdle
    /\ SearchIdle
    /\ CommunitiesIdle
    /\ rtpc = "loop"
    /\ maxAttempts \in (0..MaxAttemptsOption) \cup {DefaultMaxAttempts}
    /\ attempt = 1
    /\ delay = DelayMs
    /\ lastError = NoError
    /\ invoked = 0
    /\ fnOutcomes = <<>>
    /\ retryResult = Pending

\* line 35 and line 50: the loop test; fn is invoked, or the loop is left and
\* lastError thrown
LoopTest ==
    /\ rtpc = "loop"
    /\ IF attempt <= maxAttempts
       THEN /\ rtpc' = "calling"
            /\ invoked' = invoked + 1
            /\ UNCHANGED retryResult
       ELSE /\ rtpc' = "thrown"
            /\ retryResult' = Rejected(lastError)
            /\ UNCHANGED invoked
    /\ UNCHANGED <<maxAttempts, attempt, delay, lastError, fnOutcomes>>
    /\ RetryOnly

\* line 37: fn() fulfils and withRetry returns its value
FnFulfils ==
    /\ rtpc = "calling"
    /\ \E v \in ReturnedValues :
          /\ fnOutcomes' = Append(fnOutcomes, Fulfilled(v))
          /\ retryResult' = Fulfilled(v)
    /\ rtpc' = "returned"
    /\ UNCHANGED <<maxAttempts, attempt, delay, lastError, invoked>>
    /\ RetryOnly

\* lines 38-45: fn() rejects; the error is rethrown or the backoff timer is set
FnRejects ==
    /\ rtpc = "calling"
    /\ \E error \in ThrownValues :
          /\ fnOutcomes' = Append(fnOutcomes, Rejected(error))
          /\ lastError' = error
          /\ IF shouldRethrow(attempt, error)
             THEN /\ rtpc' = "thrown"
                  /\ retryResult' = Rejected(error)
             ELSE /\ rtpc' = "sleeping"
                  /\ UNCHANGED retryResult
    /\ UNCHANGED <<maxAttempts, attempt, delay, invoked>>
    /\ RetryOnly

\* a backoff after which the next attempt takes a slot of the limiter
BackoffElapsedTakingSlot ==
    /\ rtpc = "sleeping"
    /\ delay' = delay * BackoffMultiplier
    /\ attempt' = attempt + 1
    /\ rtpc' = "loop"
    /\ timestamps' = Append(timestamps, now)
    /\ granted' = Append(granted, now)
    /\ UNCHANGED <<maxAttempts, lastError, invoked, fnOutcomes, retryResult>>
    /\ UNCHANGED <<now, maxRequests, waiter, wakeAt>>
    /\ UNCHANGED <<reportVars, searchVars, communityVars, toolVars>>
\* lines 45-46 and the loop increment: the backoff timer fires
BackoffElapsed ==
    /\ rtpc = "sleeping"
    /\ delay' = delay * BackoffMultiplier
    /\ attempt' = attempt + 1
    /\ rtpc' = "loop"
    /\ UNCHANGED <<maxAttempts, lastError, invoked, fnOutcomes, retryResult>>
    /\ RetryOnly

RetryNext ==
    \/ LoopTest
    \/ FnFulfils
    \/ FnRejects
    \/ BackoffElapsed
SpecRetry == RetryInit /\ [][RetryNext]_vars

Last(s) == s[Len(s)]
\* C7: withRetry invokes fn at most maxAttempts times; a success ends the loop
\* and is returned; a failure classified as non-transient is rethrown at once; a
\* transient failure is followed by another attempt only while fewer than
\* maxAttempts attempts have been made, after which the last error is rethrown.
C7_BoundedRetry ==
    /\ invoked <= maxAttempts
    /\ Len(fnOutcomes) <= invoked
    /\ \A i \in 1..(Len(fnOutcomes) - 1) :
          /\ fnOutcomes[i].status = "rejected"
          /\ retryableErrors(fnOutcomes[i].reason)
          /\ i < maxAttempts
    /\ (Len(fnOutcomes) > 0 /\ Last(fnOutcomes).status = "fulfilled") =>
          /\ rtpc = "returned"
          /\ retryResult = Last(fnOutcomes)
    /\ (Len(fnOutcomes) > 0 /\ Last(fnOutcomes).status = "rejected"
          /\ (~retryableErrors(Last(fnOutcomes).reason) \/ Len(fnOutcomes) = maxAttempts)) =>
          /\ rtpc = "thrown"
          /\ retryResult = Last(fnOutcomes)
    /\ rtpc = "returned" => Len(fnOutcomes) > 0 /\ Last(fnOutcomes).status = "fulfilled"
    /\ (rtpc = "thrown" /\ maxAttempts > 0) =>
          /\ Len(fnOutcomes) > 0
          /\ Last(fnOutcomes).status = "rejected"
          /\ ~retryableErrors(Last(fnOutcomes).reason) \/ Len(fnOutcomes) = maxAttempts

\* reached: with the default of three attempts, two transient failures were
\* retried and the third was rethrown
C7_Witness ==
    /\ maxAttempts = 3
    /\ rtpc = "thrown"
    /\ invoked = 3
    /\ \A i \in 1..3 : retryableErrors(fnOutcomes[i].reason)
    /\ retryResult = fnOutcomes[3]

\* ======================================================================
\* Provider fallback: webSearch (src/src/tools/find-communities.ts),
\* runSearch (src/src/tools/estimate-market-size.ts), searchOne
\* (src/unnamed/part_005)
\* ======================================================================
SearchKinds == {"webSearch", "runSearch", "searchOne"}
\* What a provider's search() can throw: an Error with a message, and the
\* ReferenceError of a Node.js without fetch.
ProviderErrors ==
    {[kind |-> "Error", message |-> "API error: 500"],
     [kind |-> "ReferenceError", message |-> "fetch is not defined"]}
\* A URL is its sequence of characters.  A hit carries its URL and the kind of
\* site the URL names, which is what the platform tests of findCommunities read.
Sites == {"reddit", "discord", "forum", "other"}
UrlOf(site) ==
    IF site = "reddit" THEN <<"r">>
    ELSE IF site = "discord" THEN <<"d">>
    ELSE IF site = "forum" THEN <<"f">>
    ELSE <<"o">>
Hits == {[url |-> UrlOf(site), site |-> site] : site \in Sites}
\* What a provider's search() can answer: a list of hits, possibly empty.
ProviderResponses == UNION {[1..n -> Hits] : n \in 0..MaxHits}
ProviderSettlements ==
    {Fulfilled(r) : r \in ProviderResponses} \cup {Rejected(e) : e \in ProviderErrors}

\* classifySearchError, src/src/utils/errors.ts lines 5-18
classifySearchError(error) ==
    IF error.kind = "ReferenceError" /\ error.message = "fetch is not defined"
    THEN "fetch is not available in Node.js; Oxira requires Node.js 18+"
    ELSE error.message

NoProviderMessage == "No search provider configured. Set BRAVE_SEARCH_API_KEY or TAVILY_API_KEY."

\* response.results.map(...): each hit of the answering provider, in order
MappedHits(provider, response) ==
    [i \in 1..Len(response) |->
        [url |-> response[i].url, site |-> response[i].site, provider |-> provider]]

\* what the helper returns from inside a provider's try block
SearchSuccess(kind, provider, response) ==
    IF kind = "runSearch"
    THEN Fulfilled([results |-> MappedHits(provider, response), error |-> Null])
    ELSE Fulfilled(MappedHits(provider, response))

\* What the helper does after the provider blocks, no provider having answered:
\* webSearch throws lastError if there is one and else returns []; runSearch
\* returns the configuration message; searchOne returns [].
SearchFallthrough(kind, last) ==
    IF kind = "webSearch"
    THEN IF last # Null THEN Rejected(last[1]) ELSE Fulfilled(<<>>)
    ELSE IF kind = "runSearch"
         THEN Fulfilled([results |-> <<>>, error |-> Some(NoProviderMessage)])
         ELSE Fulfilled(<<>>)

\* what the helper does in the catch block of the Tavily call: runSearch returns
\* there (estimate-market-size.ts lines 172-175), the others fall through
TavilyFailed(kind, error) ==
    IF kind = "runSearch"
    THEN Fulfilled([results |-> <<>>, error |-> Some(classifySearchError(error))])
    ELSE SearchFallthrough(kind, Some(error))

\* the first provider counts as having answered only with a non-empty response
answeredNonEmpty(settled) == settled.status = "fulfilled" /\ settled.value # <<>>

\* `return` inside `try`: a provider answered when its search() fulfilled
answered(settled) == settled.status = "fulfilled"

\* a step of a search helper leaves the other subsystems alone
SearchOnly == UNCHANGED <<reportVars, limiterVars, retryVars, communityVars, toolVars>>

SearchInit ==
    /\ ReportIdle
    /\ ToolsIdle
    /\ LimiterIdle
    /\ RetryIdle
    /\ CommunitiesIdle
    /\ spc = "start"
    /\ queryNo = 1
    /\ searchKind \in SearchKinds
    /\ braveClient \in BOOLEAN
    /\ tavilyClient \in BOOLEAN
    /\ providerCalls = <<>>
    /\ providerOutcomes = <<>>
    /\ searchLastError = Null
    /\ searchResult = Pending

\* the helper is entered: it calls Brave if configured, else Tavily if
\* configured, else it falls through
SearchStart ==
    /\ spc = "start"
    /\ IF braveClient
       THEN /\ providerCalls' = Append(providerCalls, "brave")
            /\ spc' = "brave"
            /\ UNCHANGED searchResult
       ELSE IF tavilyClient
            THEN /\ providerCalls' = Append(providerCalls, "tavily")
                 /\ spc' = "tavily"
                 /\ UNCHANGED searchResult
            ELSE /\ spc' = "done"
                 /\ searchResult' = SearchFallthrough(searchKind, searchLastError)
                 /\ UNCHANGED providerCalls
    /\ UNCHANGED <<searchKind, braveClient, tavilyClient, providerOutcomes, searchLastError, queryNo>>
    /\ SearchOnly

\* braveClient.search() settles: its answer is returned, or the error is caught
\* and Tavily is called if configured
BraveSettles ==
    /\ spc = "brave"
    /\ \E settled \in ProviderSettlements :
          /\ providerOutcomes' = Append(providerOutcomes, settled)
          /\ IF answered(settled)
             THEN /\ spc' = "done"
                  /\ searchResult' = SearchSuccess(searchKind, "brave", settled.value)
                  /\ UNCHANGED <<providerCalls, searchLastError>>
             ELSE /\ searchLastError' = IF settled.status = "rejected"
                                        THEN Some(settled.reason) ELSE searchLastError
                  /\ IF tavilyClient
                     THEN /\ providerCalls' = Append(providerCalls, "tavily")
                          /\ spc' = "tavily"
                          /\ UNCHANGED searchResult
                     ELSE /\ spc' = "done"
                          /\ searchResult' = SearchFallthrough(searchKind, searchLastError')
                          /\ UNCHANGED providerCalls
    /\ UNCHANGED <<searchKind, braveClient, tavilyClient, queryNo>>
    /\ SearchOnly

\* tavilyClient.search() settles: its answer is returned, or the error is caught
TavilySettles ==
    /\ spc = "tavily"
    /\ \E settled \in ProviderSettlements :
          /\ providerOutcomes' = Append(providerOutcomes, settled)
          /\ IF settled.status = "fulfilled"
             THEN /\ searchResult' = SearchSuccess(searchKind, "tavily", settled.value)
                  /\ UNCHANGED searchLastError
             ELSE /\ searchLastError' = Some(settled.reason)
                  /\ searchResult' = TavilyFailed(searchKind, settled.reason)
    /\ spc' = "done"
    /\ UNCHANGED <<searchKind, braveClient, tavilyClient, providerCalls, queryNo>>
    /\ SearchOnly

\* the orchestrator issues its next query: the helper is entered afresh, with
\* the same (process-wide) clients
IssueNextQuery ==
    /\ spc = "done"
    /\ queryNo < MaxQueries
    /\ queryNo' = queryNo + 1
    /\ spc' = "start"
    /\ providerCalls' = <<>>
    /\ providerOutcomes' = <<>>
    /\ searchLastError' = Null
    /\ searchResult' = Pending
    /\ UNCHANGED <<searchKind, braveClient, tavilyClient>>
    /\ SearchOnly

SearchNext ==
    \/ SearchStart
    \/ IssueNextQuery
    \/ BraveSettles
    \/ TavilySettles
SpecSearch == SearchInit /\ [][SearchNext]_vars

\* the hits a helper returned
ReturnedHits ==
    IF searchKind = "runSearch" THEN searchResult.value.results ELSE searchResult.value

HnTopicQueries == 2
HnTopHits == 3
HnMinPoints == 10
RedditQueryLimit == 3
MaxCommunities == 15

\* String.prototype.toLowerCase, on the characters URLs are made of
LowerChar(c) ==
    IF c = "R" THEN "r" ELSE IF c = "D" THEN "d" ELSE IF c = "F" THEN "f"
    ELSE IF c = "O" THEN "o" ELSE IF c = "H" THEN "h" ELSE c
\* line 66: c.url.toLowerCase().replace(/\/$/, "")
NormalizeUrl(url) ==
    LET lower == [i \in 1..Len(url) |-> LowerChar(url[i])]
    IN IF Len(lower) > 0 /\ lower[Len(lower)] = "/"
       THEN SubSeq(lower, 1, Len(lower) - 1)
       ELSE lower

\* dedupeByUrl without the normalisation of line 66
RECURSIVE dedupeExactFrom(_, _)
dedupeExactFrom(list, seen) ==
    IF list = <<>> THEN <<>>
    ELSE IF Head(list).url \in seen
         THEN dedupeExactFrom(Tail(list), seen)
         ELSE <<Head(list)>> \o dedupeExactFrom(Tail(list), seen \cup {Head(list).url})
dedupeExact(list) == dedupeExactFrom(list, {})

\* dedupeByUrl, lines 63-71: the first community of every normalized URL
RECURSIVE dedupeFrom(_, _)
dedupeFrom(list, seen) ==
    IF list = <<>> THEN <<>>
    ELSE LET normalized == NormalizeUrl(Head(list).url)
         IN IF normalized \in seen
            THEN dedupeFrom(Tail(list), seen)
            ELSE <<Head(list)>> \o dedupeFrom(Tail(list), seen \cup {normalized})
dedupeByUrl(list) == dedupeFrom(list, {})

\* What hnAlgoliaClient.searchStories can answer and throw
HnResponses ==
    {<<>>,
     <<[objectID |-> "1", points |-> 12]>>,
     <<[objectID |-> "1", points |-> 3]>>}
HnError == [kind |-> "Error", message |-> "HN Algolia API error: 500"]
HnSettlements == {Fulfilled(r) : r \in HnResponses} \cup {Rejected(HnError)}
\* what one provider can do with a query of findCommunities: answer with at
\* most one hit, or fail for want of fetch
WebSettlements ==
    {Fulfilled(r) : r \in {x \in ProviderResponses : Len(x) <= 1}}
        \cup {Rejected(e) : e \in {x \in ProviderErrors : x.kind = "ReferenceError"}}

\* webSearch, lines 18-56, as a function of its providers' settlements
webSearch(braveSettled, tavilySettled) ==
    IF braveClient /\ answered(braveSettled)
    THEN SearchSuccess("webSearch", "brave", braveSettled.value)
    ELSE LET caught == IF braveClient /\ braveSettled.status = "rejected"
                       THEN Some(braveSettled.reason) ELSE Null
         IN IF tavilyClient
            THEN IF tavilySettled.status = "fulfilled"
                 THEN SearchSuccess("webSearch", "tavily", tavilySettled.value)
                 ELSE TavilyFailed("webSearch", tavilySettled.reason)
            ELSE SearchFallthrough("webSearch", caught)
\* every way a call of webSearch can settle under the configured providers
WebSearchSettlements ==
    {webSearch(b, t) : b \in WebSettlements, t \in WebSettlements}

\* lines 81 and 111: the number of HackerNews and of Reddit queries
hnQueryCount(n) == 1 + Min(HnTopicQueries, n)
redditQueryCount(n) == Min(RedditQueryLimit, 1 + n)

\* the batch awaited after the one at pos
NextBatch(pos, n) ==
    IF pos.phase = "hn"
    THEN IF pos.index < hnQueryCount(n)
         THEN [phase |-> "hn", index |-> pos.index + 1]
         ELSE [phase |-> "reddit", index |-> 1]
    ELSE IF pos.phase = "reddit"
         THEN IF pos.index < redditQueryCount(n)
              THEN [phase |-> "reddit", index |-> pos.index + 1]
              ELSE [phase |-> "discord", index |-> 1]
         ELSE IF pos.phase = "discord"
              THEN [phase |-> "forum", index |-> 1]
              ELSE [phase |-> "done", index |-> 0]

\* lines 87-97: the stories of a HackerNews answer that become communities
hnCommunities(response) ==
    LET top == SliceTo(response, HnTopHits)
        kept == SelectSeq(top, LAMBDA story : story.points >= HnMinPoints)
    IN [i \in 1..Len(kept) |->
           [platform |-> "HackerNews", url |-> <<"h", kept[i].objectID>>]]

\* lines 114-123, 134-145, 155-170: the hits of a web answer that become
\* communities of the batch's platform
webCommunities(phase, results) ==
    LET kept == SelectSeq(results, LAMBDA result : result.site = phase)
        platform == IF phase = "reddit" THEN "Reddit"
                    ELSE IF phase = "discord" THEN "Discord" ELSE "Forum"
    IN [i \in 1..Len(kept) |-> [platform |-> platform, url |-> kept[i].url]]

\* a catch block that rethrows instead of recording the error
onBatchErrorRethrow(errs, error) == [errors |-> errs, abort |-> TRUE]

\* the catch blocks, lines 99-102, 125-127, 147-149, 172-174: the error is
\* recorded and the function goes on
onBatchError(errs, error) ==
    [errors |-> Append(errs, classifySearchError(error)), abort |-> FALSE]

\* lines 176-183: the end of findCommunities
finishCommunities(found, errs) ==
    LET unique == SliceTo(dedupeByUrl(found), MaxCommunities)
    IN IF Len(unique) = 0 /\ Len(errs) > 0
       THEN Rejected([kind |-> "Error",
                      message |-> <<"All community searches failed: ", errs[1]>>])
       ELSE Fulfilled(unique)

\* a step of findCommunities leaves the other subsystems alone
CommunitiesOnly ==
    UNCHANGED <<reportVars, limiterVars, retryVars, spc, queryNo, searchKind,
                braveClient, tavilyClient, providerCalls, providerOutcomes,
                searchLastError, searchResult, toolVars>>

\* lines 73-81: findCommunities is entered; the first HackerNews query is awaited
CommunitiesInit ==
    /\ ReportIdle
    /\ ToolsIdle
    /\ LimiterIdle
    /\ RetryIdle
    /\ spc = "idle"
    /\ queryNo = 0
    /\ searchKind = "webSearch"
    /\ braveClient \in BOOLEAN
    /\ tavilyClient \in BOOLEAN
    /\ providerCalls = <<>>
    /\ providerOutcomes = <<>>
    /\ searchLastError = Null
    /\ searchResult = Pending
    /\ fpc = [phase |-> "hn", index |-> 1]
    /\ topicCount \in 0..MaxTopics
    /\ communities = <<>>
    /\ errors = <<>>
    /\ attempted = <<>>
    /\ fcResult = Pending

\* The batch at fpc settles with `settled`, whose answer gives the communities
\* `found`: they are pushed, or the error is caught; the next batch is awaited,
\* and after the last one the function ends.
BatchSettles(settled, found) ==
    LET handled == IF settled.status = "rejected"
                   THEN onBatchError(errors, settled.reason)
                   ELSE [errors |-> errors, abort |-> FALSE]
        next == NextBatch(fpc, topicCount)
    IN /\ attempted' = Append(attempted,
                              [phase |-> fpc.phase,
                               failed |-> settled.status = "rejected",
                               found |-> found])
       /\ IF handled.abort
          THEN /\ fpc' = [phase |-> "done", index |-> 0]
               /\ fcResult' = Rejected(settled.reason)
               /\ UNCHANGED <<communities, errors>>
          ELSE /\ communities' = communities \o found
               /\ errors' = handled.errors
               /\ fpc' = next
               /\ fcResult' = IF next.phase = "done"
                              THEN finishCommunities(communities', errors')
                              ELSE fcResult
       /\ UNCHANGED topicCount
       /\ CommunitiesOnly

\* lines 83-103: one HackerNews query settles
HnBatch ==
    /\ fpc.phase = "hn"
    /\ \E settled \in HnSettlements :
          BatchSettles(settled,
                       IF settled.status = "fulfilled"
                       THEN hnCommunities(settled.value) ELSE <<>>)

\* lines 111-128: one Reddit query settles
RedditBatch ==
    /\ fpc.phase = "reddit"
    /\ \E settled \in WebSearchSettlements :
          BatchSettles(settled,
                       IF settled.status = "fulfilled"
                       THEN webCommunities("reddit", settled.value) ELSE <<>>)

\* lines 131-149: the Discord query settles
DiscordBatch ==
    /\ fpc.phase = "discord"
    /\ \E settled \in WebSearchSettlements :
          BatchSettles(settled,
                       IF settled.status = "fulfilled"
                       THEN webCommunities("discord", settled.value) ELSE <<>>)

\* lines 152-183: the forum query settles and findCommunities ends
ForumBatch ==
    /\ fpc.phase = "forum"
    /\ \E settled \in WebSearchSettlements :
          BatchSettles(settled,
                       IF settled.status = "fulfilled"
                       THEN webCommunities("forum", settled.value) ELSE <<>>)

CommunitiesNext ==
    \/ HnBatch
    \/ RedditBatch
    \/ DiscordBatch
    \/ ForumBatch
SpecCommunities == CommunitiesInit /\ [][CommunitiesNext]_vars

\* the batches of a call with n topics, in the order of the source
RECURSIVE Repeat(_, _)
Repeat(x, k) == IF k = 0 THEN <<>> ELSE <<x>> \o Repeat(x, k - 1)
BatchPlan(n) ==
    Repeat("hn", 1 + Min(2, n)) \o Repeat("reddit", Min(3, 1 + n))
        \o <<"discord", "forum">>
RECURSIVE Concat(_)
Concat(lists) == IF lists = <<>> THEN <<>> ELSE Head(lists) \o Concat(Tail(lists))
CommunitiesDone == fpc.phase = "done"
NumFailed == Cardinality({i \in 1..Len(attempted) : attempted[i].failed})

\* C9: the batches (HackerNews queries, Reddit queries, the Discord query, the
\* forum query) are attempted once each, in that order, whatever failed before;
\* a failure is recorded, and the communities collected by every batch are
\* kept.
C9_EveryBatchOnce ==
    LET plan == BatchPlan(topicCount)
    IN /\ Len(attempted) <= Len(plan)
       /\ \A i \in 1..Len(attempted) : attempted[i].phase = plan[i]
       /\ CommunitiesDone <=> Len(attempted) = Len(plan)
       /\ Len(errors) = NumFailed
       /\ communities = Concat([i \in 1..Len(attempted) |-> attempted[i].found])
       /\ (CommunitiesDone /\ fcResult.status = "fulfilled")
             => fcResult.value = SliceTo(dedupeByUrl(communities), 15)

\* reached: the first HackerNews query failed, a Reddit query failed, and the
\* Discord and forum communities found afterwards were returned
C9_Witness ==
    /\ CommunitiesDone
    /\ topicCount = 3
    /\ Len(attempted) = 8
    /\ attempted[1].failed
    /\ attempted[4].failed
    /\ fcResult.status = "fulfilled"
    /\ Len(fcResult.value) = 2
    /\ fcResult.value[1].platform = "Discord"
    /\ fcResult.value[2].platform = "Forum"

\* C10: findCommunities throws exactly when every batch failed, and then with
\* the first recorded error; if a batch succeeded it returns a list, empty when
\* nothing matched.
C10_ThrowsIffAllFailed ==
    CommunitiesDone =>
        LET allFailed == \A i \in 1..Len(attempted) : attempted[i].failed
        IN /\ fcResult.status = "rejected" <=> allFailed
           /\ fcResult.status = "rejected" => fcResult.reason.message[2] = errors[1]
           /\ ~allFailed => fcResult.status = "fulfilled"
           /\ (~allFailed /\ communities = <<>>) => fcResult = Fulfilled(<<>>)

\* ----------------------------------------------------------------------
\* findCommunities, the collected list and its return (lines 77, 90, 117,
\* 139, 164, 176-183), with lists long enough for the cap
\* ----------------------------------------------------------------------
MaxCollected == 17
MaxDuplicates == 2
MaxPerPlatform == 5

\* names of the pages the providers can report
PageNames ==
    <<"01", "02", "03", "04", "05", "06", "07", "08", "09", "10",
      "11", "12", "13", "14", "15", "16", "17", "18", "19", "20">>
\* the spellings under which a provider can report the page `name`
UrlSpellings(name) ==
    {<<"r", name>>, <<"R", name>>, <<"r", name, "/">>, <<"r", name, "/", "/">>}
\* the order in which the platforms push, lines 83-174
PlatformOrder == <<"HackerNews", "Reddit", "Discord", "Forum">>
PlatformRank(platform) ==
    CHOOSE k \in 1..Len(PlatformOrder) : PlatformOrder[k] = platform
\* the pages collected so far
PagesOf(list) == {list[i].url[2] : i \in 1..Len(list)}
\* an entry that repeats a page collected before it
IsRepeat(list, i) == \E j \in 1..(i - 1) : list[j].url[2] = list[i].url[2]
NumRepeats(list) == Cardinality({i \in 1..Len(list) : IsRepeat(list, i)})

\* findCommunities is entered with nothing collected
CollectInit ==
    /\ ReportIdle
    /\ ToolsIdle
    /\ LimiterIdle
    /\ RetryIdle
    /\ SearchIdle
    /\ fpc = [phase |-> "collect", index |-> 0]
    /\ topicCount = 0
    /\ communities = <<>>
    /\ errors = <<>>
    /\ attempted = <<>>
    /\ fcResult = Pending

\* the platform of the k-th push: the platforms push in order, lines 83-174,
\* MaxPerPlatform communities each
PlatformAt(k) ==
    PlatformOrder[Min(Len(PlatformOrder), ((k - 1) \div MaxPerPlatform) + 1)]

\* communities.push(...), lines 90, 117, 139, 164: a batch reports a page, new
\* or collected before (the first or the latest page) under some spelling
PushCommunity ==
    /\ fpc.phase = "collect"
    /\ Len(communities) < MaxCollected
    /\ \E known \in BOOLEAN :
          LET fresh == PageNames[Cardinality(PagesOf(communities)) + 1]
              urls == IF known
                      THEN UrlSpellings(communities[1].url[2])
                             \cup UrlSpellings(communities[Len(communities)].url[2])
                      ELSE {<<"r", fresh>>}
          IN /\ known => /\ communities # <<>>
                         /\ NumRepeats(communities) < MaxDuplicates
             /\ \E url \in urls :
                   communities' =
                       Append(communities,
                              [platform |-> PlatformAt(Len(communities) + 1),
                               url |-> url])
    /\ UNCHANGED <<fpc, topicCount, errors, attempted, fcResult>>
    /\ CommunitiesOnly

\* lines 176-183: the collected list is deduplicated, capped and returned
ReturnUnique ==
    /\ fpc.phase = "collect"
    /\ fpc' = [phase |-> "done", index |-> 0]
    /\ fcResult' = finishCommunities(communities, errors)
    /\ UNCHANGED <<topicCount, communities, errors, attempted>>
    /\ CommunitiesOnly

CollectNext ==
    \/ PushCommunity
    \/ ReturnUnique
SpecCollect == CollectInit /\ [][CollectNext]_vars

\* the positions of the collected list that hold the first occurrence of
\* their canonical URL
FirstOccurrences(list) ==
    {i \in 1..Len(list) :
        \A j \in 1..(i - 1) : NormalizeUrl(list[j].url) # NormalizeUrl(list[i].url)}
\* the k-th smallest element of a set of positions
KthOf(positions, k) ==
    CHOOSE i \in positions : Cardinality({j \in positions : j <= i}) = k

\* C11: the returned list has at most 15 entries, no two with the same
\* canonical URL, and is made of the first occurrences of the collected list
\* in collection order (HackerNews, Reddit, Discord, Forum).
C11_DedupedCapped ==
    (fpc.phase = "done" /\ fcResult.status = "fulfilled") =>
        LET list == fcResult.value
            firsts == FirstOccurrences(communities)
        IN /\ Len(list) <= 15
           /\ Len(list) = Min(15, Cardinality(firsts))
           /\ \A i, j \in 1..Len(list) :
                 i # j => NormalizeUrl(list[i].url) # NormalizeUrl(list[j].url)
           /\ \A k \in 1..Len(list) : list[k] = communities[KthOf(firsts, k)]
           /\ \A i, j \in 1..Len(list) :
                 i < j => PlatformRank(list[i].platform) <= PlatformRank(list[j].platform)

\* reached: 17 communities collected, two of them repeats under another
\* spelling among the first ones, 15 returned
C11_Witness ==
    /\ fpc.phase = "done"
    /\ Len(communities) = 17
    /\ NormalizeUrl(communities[2].url) = NormalizeUrl(communities[1].url)
    /\ communities[2].url # communities[1].url
    /\ Cardinality(FirstOccurrences(communities)) = 16
    /\ fcResult.status = "fulfilled"
    /\ Len(fcResult.value) = 15
    /\ fcResult.value[2] = communities[3]

\* ======================================================================
\* searchCompetitors (src/unnamed/part_005)
\* ======================================================================
\* the largest max_results searchCompetitors is called with
MaxResultsBound == 2

\* A URL as new URL(url) parses it: the subdomain label ("" when there is
\* none), the registered domain and the path.
Subdomains == {"", "www", "old", "blog", "cdn"}
ContentDomains == {"reddit.com", "medium.com", "g2.com", "capterra.com"}
G2SkipDomains == {"github.com", "g2.com"}
BaseDomains ==
    {"acme.com", "bolt.io", "core.app", "dash.io", "devagency.com",
     "userforum.com", "enterpriseworkflowhub.com"}
        \cup ContentDomains \cup G2SkipDomains
Paths == {"/", "/pricing", "/blog/post", "/tag/x", "/r/x"}
Url(sub, base, path) == [sub |-> sub, base |-> base, path |-> path]

\* the first label of a registered domain, and the length of a name
FirstLabel(base) ==
    CASE base = "acme.com" -> "acme"
      [] base = "bolt.io" -> "bolt"
      [] base = "core.app" -> "core"
      [] base = "dash.io" -> "dash"
      [] base = "devagency.com" -> "devagency"
      [] base = "userforum.com" -> "userforum"
      [] base = "enterpriseworkflowhub.com" -> "enterpriseworkflowhub"
      [] base = "reddit.com" -> "reddit"
      [] base = "medium.com" -> "medium"
      [] base = "g2.com" -> "g2"
      [] base = "capterra.com" -> "capterra"
      [] base = "github.com" -> "github"
NameLength(name) ==
    CASE name = "" -> 0
      [] name \in {"g2"} -> 2
      [] name \in {"www", "old", "cdn"} -> 3
      [] name \in {"acme", "bolt", "core", "dash", "blog"} -> 4
      [] name \in {"g2.com"} -> 6
      [] name \in {"reddit", "medium", "github"} -> 6
      [] name \in {"bolt.io", "dash.io"} -> 7
      [] name \in {"acme.com", "core.app", "capterra"} -> 8
      [] name \in {"devagency", "userforum"} -> 9
      [] name \in {"reddit.com", "medium.com", "github.com"} -> 10
      [] name \in {"capterra.com"} -> 12
      [] name \in {"devagency.com", "userforum.com"} -> 13
      [] name \in {"enterpriseworkflowhub"} -> 21
      [] name \in {"enterpriseworkflowhub.com"} -> 25

\* the hostname as it is
extractDomainKeepWww(url) == [sub |-> url.sub, base |-> url.base]
\* extractDomain, lines 62-69: the hostname without a leading "www."
extractDomain(url) ==
    [sub |-> IF url.sub = "www" THEN "" ELSE url.sub, base |-> url.base]
\* domain.split(".")[0]
DomainName(domain) ==
    IF domain.sub = "" THEN FirstLabel(domain.base) ELSE domain.sub
\* clean.length of looksLikeProductDomain, line 385
DomainLength(domain) ==
    IF domain.sub = "" THEN NameLength(domain.base)
    ELSE NameLength(domain.sub) + 1 + NameLength(domain.base)

\* AGENCY_DOMAIN_PATTERNS, lines 227-238, and the forum test of line 306,
\* on the first label of a domain
MatchesAgency(name) == name \in {"devagency"}
MatchesForum(name) == name \in {"userforum"}
\* CONTENT_PATH_PATTERNS, PRODUCT_PATH_PATTERNS, NOISE_PATH_PREFIXES
ContentPath(path) == path \in {"/blog/post", "/tag/x"}
ProductPath(path) == path \in {"/pricing"}
NoisePath(path) == path \in {"/blog/post"}
\* line 334: path.split("/").filter(Boolean).length <= 1
ShallowPath(path) == path \in {"/", "/pricing"}

\* a block list that only matches the domain itself
IsContentDomainExact(domain) == domain.sub = "" /\ domain.base \in ContentDomains
\* lines 266-271: the domain is a content platform or a subdomain of one
IsContentDomain(domain) == domain.base \in ContentDomains

SCORE_THRESHOLD == 30
\* scoreResult, lines 260-340
scoreResult(result) ==
    LET domain == extractDomain(result.url)
        name == DomainName(domain)
        path == result.url.path
        score == 50
                 - (IF ContentPath(path) THEN 20 ELSE 0)
                 - (IF result.listicleTitle THEN 25 ELSE 0)
                 - (IF MatchesAgency(name) THEN 25 ELSE 0)
                 - (IF MatchesForum(name) THEN 30 ELSE 0)
                 + (IF NameLength(name) <= 12 THEN 5 ELSE 0)
                 + (IF ProductPath(path) THEN 10 ELSE 0)
                 + (IF result.firstPerson THEN 15 ELSE 0)
                 + (IF ShallowPath(path) THEN 5 ELSE 0)
    IN IF IsContentDomain(domain) THEN 0 ELSE Max(0, score)

\* looksLikeProductDomain, lines 383-392
looksLikeProductDomain(url) ==
    LET clean == extractDomain(url)
    IN /\ DomainLength(clean) < 20
       /\ ~MatchesAgency(DomainName(clean))
       /\ ~MatchesForum(DomainName(clean))
\* a normalisation that leaves every URL as it is
normalizeNothing(url) == url
\* normalizeProductUrl, lines 394-406: a noisy path on a product-like domain
\* is replaced by the root of the host
normalizeProductUrl(url) ==
    IF NoisePath(url.path) /\ looksLikeProductDomain(url)
    THEN Url(url.sub, url.base, "/")
    ELSE url

\* isProductUrl, lines 97-108
isProductUrl(url) ==
    /\ ~(url.sub \in {"", "www"} /\ url.base \in G2SkipDomains)
    /\ url.sub # "cdn"
\* extractG2Products, lines 110-140: the product links of a category page,
\* one per domain, each reduced to its origin
RECURSIVE g2ProductsFrom(_, _)
g2ProductsFrom(links, seenDomains) ==
    IF links = <<>> THEN <<>>
    ELSE LET origin == Url(Head(links).sub, Head(links).base, "/")
             domain == extractDomain(origin)
         IN IF ~isProductUrl(Head(links)) \/ domain \in seenDomains
            THEN g2ProductsFrom(Tail(links), seenDomains)
            ELSE <<[name |-> DomainName(domain), url |-> origin]>>
                     \o g2ProductsFrom(Tail(links), seenDomains \cup {domain})
extractG2Products(links) == g2ProductsFrom(links, {})

\* a hit as a provider reports it: the URL, and what the patterns of
\* scoreResult find in its title and description (id stands for their text)
Hit(id, url, listicleTitle, firstPerson) ==
    [id |-> id, url |-> url, listicleTitle |-> listicleTitle,
     firstPerson |-> firstPerson, source |-> "search"]
H1 == Hit(1, Url("", "acme.com", "/"), FALSE, TRUE)
H2 == Hit(2, Url("www", "acme.com", "/blog/post"), FALSE, FALSE)
H3 == Hit(3, Url("", "bolt.io", "/pricing"), FALSE, FALSE)
H4 == Hit(4, Url("", "core.app", "/"), TRUE, FALSE)
H5 == Hit(5, Url("", "devagency.com", "/"), FALSE, FALSE)
H6 == Hit(6, Url("old", "reddit.com", "/r/x"), FALSE, TRUE)
H7 == Hit(7, Url("", "dash.io", "/blog/post"), FALSE, FALSE)
H8 == Hit(8, Url("", "userforum.com", "/"), FALSE, FALSE)
H9 == Hit(9, Url("", "enterpriseworkflowhub.com", "/tag/x"), TRUE, FALSE)
\* what searchOne can resolve with for one query, lines 441-477: the hits of
\* the provider that answered, or [] when none is configured or all failed
QueryAnswers == {<<>>, <<H1, H2, H3>>, <<H6, H4, H5>>, <<H7, H8, H9>>}
searchOneAnswers ==
    IF braveClient \/ tavilyClient THEN QueryAnswers ELSE {<<>>}

NoProviderError ==
    [kind |-> "Error",
     message |-> "No search provider configured. Set BRAVE_SEARCH_API_KEY or TAVILY_API_KEY."]
\* runSearch, lines 479-508, given what the searchOne calls settled with
runSearch(settled) ==
    IF ~braveClient /\ ~tavilyClient
    THEN Rejected(NoProviderError)
    ELSE LET fulfilled == SelectSeq(settled, LAMBDA r : r.status = "fulfilled")
             rejected == SelectSeq(settled, LAMBDA r : r.status = "rejected")
         IN Fulfilled([results |-> Concat([i \in 1..Len(fulfilled) |-> fulfilled[i].value]),
                       error |-> IF rejected = <<>> THEN Null
                                 ELSE Some(classifySearchError(
                                               rejected[Len(rejected)].reason))])

\* the links of the category pages fetchAsMarkdown can return
G2Pages ==
    {<<Url("", "bolt.io", "/pricing"), Url("www", "bolt.io", "/"),
       Url("", "github.com", "/x"), Url("cdn", "acme.com", "/")>>,
     <<Url("", "medium.com", "/"), Url("", "dash.io", "/"),
       Url("www", "capterra.com", "/"), Url("old", "reddit.com", "/r/x")>>}
\* what the fetch of the category page can settle with: a failure, a page too
\* short to use (no links), or a page with links
G2Fetches ==
    {Rejected([kind |-> "Error", message |-> "HTTP 403"])}
        \cup {Fulfilled(links) : links \in G2Pages \cup {<<>>}}
\* mineG2Category, lines 142-167: [] unless a category page was found,
\* fetched and long enough
mineG2Category(categoryFound, fetched) ==
    IF ~categoryFound \/ fetched.status = "rejected" \/ fetched.value = <<>>
    THEN <<>>
    ELSE extractG2Products(fetched.value)

\* lines 530-538: the products of the category page as search results
g2ResultsOf(products) ==
    [i \in 1..Len(products) |->
        [id |-> 20 + i, url |-> products[i].url, listicleTitle |-> FALSE,
         firstPerson |-> FALSE, source |-> "g2"]]

\* the first result of every domain, lines 558-564
RECURSIVE uniqueFrom(_, _)
uniqueFrom(results, seenDomains) ==
    IF results = <<>> THEN <<>>
    ELSE LET domain == extractDomain(Head(results).url)
         IN IF domain \in seenDomains
            THEN uniqueFrom(Tail(results), seenDomains)
            ELSE <<Head(results)>>
                     \o uniqueFrom(Tail(results), seenDomains \cup {domain})
\* lines 550-556: the sources in which a domain appeared
domainSources(allResults, domain) ==
    {allResults[i].source :
        i \in {j \in 1..Len(allResults) : extractDomain(allResults[j].url) = domain}}
\* lines 570-576: the score with the source bonuses
combinedScore(allResults, r) ==
    scoreResult(r)
        + (IF r.source = "g2" THEN 15 ELSE 0)
        + (IF Cardinality(domainSources(allResults, extractDomain(r.url))) > 1
           THEN 20 ELSE 0)
\* no sort at all
keepOrder(list) == list
\* Array.prototype.sort((a, b) => b.score - a.score), which is stable
RECURSIVE sortByScore(_)
sortByScore(list) ==
    IF list = <<>> THEN <<>>
    ELSE LET x == list[Len(list)]
             before == sortByScore(SubSeq(list, 1, Len(list) - 1))
         IN SelectSeq(before, LAMBDA s : s.score >= x.score)
                \o <<x>> \o SelectSeq(before, LAMBDA s : s.score < x.score)
\* lines 587-593: the first scored result of every domain
RECURSIVE rededupeFrom(_, _)
rededupeFrom(list, seenFetchDomains) ==
    IF list = <<>> THEN <<>>
    ELSE LET domain == extractDomain(Head(list).result.url)
         IN IF domain \in seenFetchDomains
            THEN rededupeFrom(Tail(list), seenFetchDomains)
            ELSE <<Head(list)>>
                     \o rededupeFrom(Tail(list), seenFetchDomains \cup {domain})
\* lines 549-593: dedupe, score, filter, sort, normalise, dedupe again
rankResults(allResults) ==
    LET uniqueResults == uniqueFrom(allResults, {})
        scored == [i \in 1..Len(uniqueResults) |->
                      [result |-> uniqueResults[i],
                       score |-> combinedScore(allResults, uniqueResults[i])]]
        kept == SelectSeq(scored, LAMBDA s : s.score >= SCORE_THRESHOLD)
        sorted == sortByScore(kept)
        normalizedResults ==
            [i \in 1..Len(sorted) |->
                [result |-> [sorted[i].result EXCEPT
                                !.url = normalizeProductUrl(sorted[i].result.url)],
                 score |-> sorted[i].score]]
    IN rededupeFrom(normalizedResults, {})

\* what fetchAsMarkdown(result.url) can settle with: a page that isProductPage
\* accepts, one it refuses, or a failure
PageFetches ==
    {Fulfilled([productPage |-> TRUE]), Fulfilled([productPage |-> FALSE]),
     Rejected([kind |-> "Error", message |-> "HTTP 403"])}

\* a competitor that always carries what was read from the page
competitorOfWithPage(result, withPage) ==
    [name |-> DomainName(extractDomain(result.url)),
     url |-> result.url,
     description |-> result.id,
     tagline |-> Some("extractTagline"),
     features |-> Some("extractFeatures")]
\* lines 610-616 and 619-623: the competitor built with and without the page
competitorOf(result, withPage) ==
    [name |-> DomainName(extractDomain(result.url)),
     url |-> result.url,
     description |-> result.id,
     tagline |-> IF withPage THEN Some("extractTagline") ELSE Null,
     features |-> IF withPage THEN Some("extractFeatures") ELSE Null]

\* a test that looks at the hits of the queries only
noResultsFromSearch(searchResults, g2Results) == searchResults = <<>>
\* line 542: allResults.length === 0
noResults(searchResults, g2Results) == searchResults \o g2Results = <<>>

\* line 596
fetchLimitOf(deduped, max) == Min(Len(deduped), max + 3)
\* lines 629-632: the next candidate the backfill loop fetches, from index i
RECURSIVE scanBackfill(_, _, _, _)
scanBackfill(deduped, i, comps, max) ==
    IF i > Len(deduped) \/ Len(comps) >= max
    THEN [phase |-> "done", index |-> 0]
    ELSE IF \E k \in 1..Len(comps) :
                extractDomain(comps[k].url) = extractDomain(deduped[i].result.url)
         THEN scanBackfill(deduped, i + 1, comps, max)
         ELSE [phase |-> "backfill", index |-> i]
\* a searchCompetitors without the backfill loop
nextPrimaryNoBackfill(deduped, i, comps, max) ==
    IF i <= fetchLimitOf(deduped, max) /\ Len(comps) < max
    THEN [phase |-> "fetch", index |-> i]
    ELSE [phase |-> "done", index |-> 0]
\* lines 599-600 and 628: where searchCompetitors goes once the primary
\* loop has dealt with the candidates before index i
nextPrimary(deduped, i, comps, max) ==
    IF i <= fetchLimitOf(deduped, max) /\ Len(comps) < max
    THEN [phase |-> "fetch", index |-> i]
    ELSE IF Len(comps) < max
         THEN scanBackfill(deduped, fetchLimitOf(deduped, max) + 1, comps, max)
         ELSE [phase |-> "done", index |-> 0]

\* a step of searchCompetitors leaves the other subsystems alone
CompetitorsOnly ==
    UNCHANGED <<reportVars, limiterVars, retryVars, spc, queryNo, searchKind,
                braveClient, tavilyClient, providerCalls, providerOutcomes,
                searchLastError, searchResult, communityVars, figureVars,
                outlierVars, marketVars,
                pricingVars, topicVars,
                clientVars>>

\* lines 510-523: searchCompetitors is entered; runSearch and mineG2Category
\* are started together
CompetitorsInit ==
    /\ ReportIdle
    /\ ClientIdle
    /\ LimiterIdle
    /\ RetryIdle
    /\ CommunitiesIdle
    /\ spc = "idle"
    /\ queryNo = 0
    /\ searchKind = "searchOne"
    /\ braveClient \in BOOLEAN
    /\ tavilyClient \in BOOLEAN
    /\ providerCalls = <<>>
    /\ providerOutcomes = <<>>
    /\ searchLastError = Null
    /\ searchResult = Pending
    /\ FiguresIdle
    /\ OutliersIdle
    /\ MarketIdle
    /\ PricingIdle
    /\ TopicsIdle
    /\ cpc = [phase |-> "search", index |-> 0]
    /\ maxResults \in 0..MaxResultsBound
    /\ runSearchSettled = Pending
    /\ g2Settled = Pending
    /\ dedupedResults = <<>>
    /\ fetchLog = <<>>
    /\ scCompetitors = <<>>
    /\ scResult = Pending

\* runSearch settles: it threw for want of a provider, or its three searchOne
\* calls settled
RunSearchSettles ==
    /\ cpc.phase = "search"
    /\ runSearchSettled = Pending
    /\ \E q1 \in searchOneAnswers, q2 \in searchOneAnswers, q3 \in searchOneAnswers :
          runSearchSettled' = runSearch(AllSettled(<<Fulfilled(q1), Fulfilled(q2),
                                                     Fulfilled(q3)>>).value)
    /\ UNCHANGED <<cpc, maxResults, g2Settled, dedupedResults, fetchLog,
                   scCompetitors, scResult>>
    /\ CompetitorsOnly

\* mineG2Category settles
MiningSettles ==
    /\ cpc.phase = "search"
    /\ g2Settled = Pending
    /\ \E answer \in searchOneAnswers, fetched \in G2Fetches :
          g2Settled' = Fulfilled(mineG2Category(answer # <<>>, fetched))
    /\ UNCHANGED <<cpc, maxResults, runSearchSettled, dedupedResults, fetchLog,
                   scCompetitors, scResult>>
    /\ CompetitorsOnly

\* lines 519-597: both have settled; the hits are merged, and searchCompetitors
\* throws or ranks them and goes on to the first fetch
MergeAndRank ==
    /\ cpc.phase = "search"
    /\ runSearchSettled # Pending
    /\ g2Settled # Pending
    /\ LET searchResults == IF runSearchSettled.status = "fulfilled"
                            THEN runSearchSettled.value.results ELSE <<>>
           searchError == IF runSearchSettled.status = "fulfilled"
                          THEN runSearchSettled.value.error
                          ELSE Some("Search failed")
           g2Results == IF g2Settled.status = "fulfilled"
                        THEN g2ResultsOf(g2Settled.value) ELSE <<>>
           deduped == rankResults(searchResults \o g2Results)
           next == nextPrimary(deduped, 1, <<>>, maxResults)
       IN IF noResults(searchResults, g2Results)
          THEN /\ scResult' =
                    Rejected([kind |-> "Error",
                              message |-> IF searchError # Null
                                          THEN <<"Search failed: ", searchError[1]>>
                                          ELSE <<"Search returned no results.">>])
               /\ cpc' = [phase |-> "done", index |-> 0]
               /\ UNCHANGED dedupedResults
          ELSE /\ dedupedResults' = deduped
               /\ cpc' = next
               /\ scResult' = IF next.phase = "done" THEN Fulfilled(<<>>) ELSE scResult
    /\ UNCHANGED <<maxResults, runSearchSettled, g2Settled, fetchLog, scCompetitors>>
    /\ CompetitorsOnly

\* lines 599-626: the fetch of a candidate of the primary loop settles
PrimaryFetchSettles ==
    /\ cpc.phase = "fetch"
    /\ \E fetched \in PageFetches :
          LET result == dedupedResults[cpc.index].result
              comps == IF fetched.status = "rejected"
                       THEN Append(scCompetitors, competitorOf(result, FALSE))
                       ELSE IF fetched.value.productPage
                            THEN Append(scCompetitors, competitorOf(result, TRUE))
                            ELSE scCompetitors
              next == nextPrimary(dedupedResults, cpc.index + 1, comps, maxResults)
          IN /\ fetchLog' = Append(fetchLog,
                                   [index |-> cpc.index, phase |-> "fetch",
                                    held |-> Len(scCompetitors),
                                    status |-> fetched.status])
             /\ scCompetitors' = comps
             /\ cpc' = next
             /\ scResult' = IF next.phase = "done" THEN Fulfilled(comps) ELSE scResult
    /\ UNCHANGED <<maxResults, runSearchSettled, g2Settled, dedupedResults>>
    /\ CompetitorsOnly

\* lines 628-653: the fetch of a backfilled candidate settles
BackfillFetchSettles ==
    /\ cpc.phase = "backfill"
    /\ \E fetched \in PageFetches :
          LET result == dedupedResults[cpc.index].result
              comps == Append(scCompetitors,
                              competitorOf(result, fetched.status = "fulfilled"))
              next == scanBackfill(dedupedResults, cpc.index + 1, comps, maxResults)
          IN /\ fetchLog' = Append(fetchLog,
                                   [index |-> cpc.index, phase |-> "backfill",
                                    held |-> Len(scCompetitors),
                                    status |-> fetched.status])
             /\ scCompetitors' = comps
             /\ cpc' = next
             /\ scResult' = IF next.phase = "done" THEN Fulfilled(comps) ELSE scResult
    /\ UNCHANGED <<maxResults, runSearchSettled, g2Settled, dedupedResults>>
    /\ CompetitorsOnly

CompetitorsNext ==
    \/ RunSearchSettles
    \/ MiningSettles
    \/ MergeAndRank
    \/ PrimaryFetchSettles
    \/ BackfillFetchSettles
SpecCompetitors == CompetitorsInit /\ [][CompetitorsNext]_vars

CompetitorsDone == cpc.phase = "done"
\* the canonical domain of a URL: its hostname without a leading "www."
CanonicalDomain(url) == <<IF url.sub = "www" THEN "" ELSE url.sub, url.base>>
\* the hits of the three queries and of the category listing, merged
MergedHits ==
    (IF runSearchSettled.status = "fulfilled"
     THEN runSearchSettled.value.results ELSE <<>>)
        \o (IF g2Settled.status = "fulfilled" THEN g2Settled.value ELSE <<>>)

\* C12: a list returned by searchCompetitors has at most max_results entries
\* and no two of them share a canonical domain, also after noisy URLs were
\* rewritten to their domain root and after backfill.
C12_CappedDistinctDomains ==
    (CompetitorsDone /\ scResult.status = "fulfilled") =>
        /\ Len(scResult.value) <= maxResults
        /\ \A i, j \in 1..Len(scResult.value) :
              i # j => CanonicalDomain(scResult.value[i].url)
                          # CanonicalDomain(scResult.value[j].url)

\* reached: acme.com and www.acme.com were both among the hits; 2 competitors
\* are returned, the first with its blog URL rewritten to the root, the second
\* backfilled
C12_Witness ==
    /\ CompetitorsDone
    /\ maxResults = 2
    /\ \E i, j \in 1..Len(MergedHits) : MergedHits[i] = H1 /\ MergedHits[j] = H2
    /\ scResult.status = "fulfilled"
    /\ Len(scResult.value) = 2
    /\ scResult.value[1].description = H7.id
    /\ scResult.value[1].url = Url("", "dash.io", "/")
    /\ fetchLog[Len(fetchLog)].phase = "backfill"

\* C13: searchCompetitors throws exactly when the merged hit list is empty;
\* empty queries, a failed mining step or failed page fetches do not make it
\* throw while a hit was obtained.
C13_ThrowsIffNoHits ==
    /\ CompetitorsDone => (scResult.status = "rejected" <=> MergedHits = <<>>)
    /\ ~CompetitorsDone => scResult = Pending

\* reached: the mining step gave nothing, a query gave nothing, a page fetch
\* failed, and a competitor is returned
C13_Witness ==
    /\ CompetitorsDone
    /\ g2Settled = Fulfilled(<<>>)
    /\ Len(MergedHits) = 3
    /\ \E i \in 1..Len(fetchLog) : fetchLog[i].status = "rejected"
    /\ scResult.status = "fulfilled"
    /\ Len(scResult.value) >= 1

\* C14: without a search provider searchCompetitors fails with an error whose
\* message states that no search provider is configured.
C14_NoProviderMessage ==
    (CompetitorsDone /\ ~braveClient /\ ~tavilyClient) =>
        /\ scResult.status = "rejected"
        /\ \E i \in 1..Len(scResult.reason.message) :
              scResult.reason.message[i] = NoProviderError.message


\* the candidate a returned competitor was built from
CandidateOf(competitor) ==
    CHOOSE i \in 1..Len(dedupedResults) : dedupedResults[i].result.url = competitor.url
\* the candidates whose page was fetched
Attempted == {fetchLog[k].index : k \in 1..Len(fetchLog)}

\* C21: a failed page fetch never drops a candidate: in the primary and in the
\* backfill phase the candidate is added with name, url and description from
\* the search hit and without tagline or features.
C21_FailedFetchKeepsCandidate ==
    \A k \in 1..Len(fetchLog) :
        fetchLog[k].status = "rejected" =>
            LET hit == dedupedResults[fetchLog[k].index].result
                kept == scCompetitors[fetchLog[k].held + 1]
            IN /\ Len(scCompetitors) > fetchLog[k].held
               /\ kept.url = hit.url
               /\ kept.description = hit.id
               /\ kept.name = DomainName(extractDomain(hit.url))
               /\ kept.tagline = Null
               /\ kept.features = Null
               /\ CompetitorsDone =>
                     /\ scResult.status = "fulfilled"
                     /\ scResult.value[fetchLog[k].held + 1] = kept

\* reached: a fetch failed in the primary phase and another in the backfill
\* phase, and both candidates are returned
C21_Witness ==
    /\ CompetitorsDone
    /\ scResult.status = "fulfilled"
    /\ Len(scResult.value) = 2
    /\ \E j, k \in 1..Len(fetchLog) :
          /\ fetchLog[j].phase = "fetch"
          /\ fetchLog[j].status = "rejected"
          /\ fetchLog[k].phase = "backfill"
          /\ fetchLog[k].status = "rejected"
    /\ \A i \in 1..2 : scResult.value[i].tagline = Null

\* C22: when searchCompetitors returns, it returns exactly max_results
\* competitors or every deduplicated candidate above the threshold was
\* fetched; fetches happen one after the other, only after the queries and
\* the mining step have settled, and none once max_results are collected.
C22_FetchUntilFullOrExhausted ==
    /\ (CompetitorsDone /\ scResult.status = "fulfilled") =>
          \/ Len(scResult.value) = maxResults
          \/ Attempted = 1..Len(dedupedResults)
    /\ fetchLog # <<>> => runSearchSettled # Pending /\ g2Settled # Pending
    /\ cpc.phase \in {"fetch", "backfill"} =>
          runSearchSettled # Pending /\ g2Settled # Pending
    /\ \A k \in 1..Len(fetchLog) :
          /\ fetchLog[k].held < maxResults
          /\ k > 1 => fetchLog[k - 1].index < fetchLog[k].index

\* reached: fewer than max_results competitors are returned after the primary
\* candidates and a backfilled one were all fetched
C22_Witness ==
    /\ CompetitorsDone
    /\ scResult.status = "fulfilled"
    /\ Len(scResult.value) < maxResults
    /\ Attempted = 1..Len(dedupedResults)
    /\ fetchLog # <<>>
    /\ fetchLog[Len(fetchLog)].phase = "backfill"

\* C23: every returned competitor had a combined score of at least 30, and
\* the returned list is in non-increasing order of that score, backfilled
\* entries included.
C23_ScoredAndOrdered ==
    (CompetitorsDone /\ scResult.status = "fulfilled") =>
        /\ \A k \in 1..Len(scResult.value) :
              /\ \E i \in 1..Len(dedupedResults) :
                    dedupedResults[i].result.url = scResult.value[k].url
              /\ dedupedResults[CandidateOf(scResult.value[k])].score >= 30
        /\ \A k \in 1..Len(scResult.value) - 1 :
              dedupedResults[CandidateOf(scResult.value[k])].score
                 >= dedupedResults[CandidateOf(scResult.value[k + 1])].score

\* reached: two competitors with different scores are returned, the second
\* one backfilled
C23_Witness ==
    /\ CompetitorsDone
    /\ scResult.status = "fulfilled"
    /\ Len(scResult.value) = 2
    /\ dedupedResults[CandidateOf(scResult.value[1])].score
          > dedupedResults[CandidateOf(scResult.value[2])].score
    /\ fetchLog[Len(fetchLog)].phase = "backfill"

\* the hits, of the queries or of the category listing, on a block-listed
\* domain or a subdomain of one
BlockedHits ==
    {i \in 1..Len(MergedHits) : MergedHits[i].url.base \in ContentDomains}

\* C24: no returned competitor is on a block-listed content domain or on a
\* subdomain of one: scoreResult is 0 for such a candidate, and the listing
\* and multi-source bonuses do not lift it to the threshold.
C24_NoContentDomains ==
    /\ \A i \in 1..Len(dedupedResults) :
          dedupedResults[i].result.url.base \notin ContentDomains
    /\ \A k \in 1..Len(scCompetitors) :
          scCompetitors[k].url.base \notin ContentDomains
    /\ (CompetitorsDone /\ scResult.status = "fulfilled") =>
          \A k \in 1..Len(scResult.value) :
              scResult.value[k].url.base \notin ContentDomains

\* reached: old.reddit.com came from a query and from the category listing,
\* medium.com from the listing, and competitors are returned
C24_Witness ==
    /\ CompetitorsDone
    /\ scResult.status = "fulfilled"
    /\ Len(scResult.value) >= 1
    /\ \E i, j \in BlockedHits :
          /\ i # j
          /\ MergedHits[i].url.sub = "old"
          /\ MergedHits[j].url.sub = "old"
    /\ \E i \in BlockedHits : MergedHits[i].url.base = "medium.com"

\* ======================================================================
\* extractDollarFigures (src/src/tools/estimate-market-size.ts, lines 15-52)
\* ======================================================================
\* the most calls of extractDollarFigures in a run, and the longest text
MaxFigureCalls == 3
MaxTextTokens == 3

\* A text is a sequence of passages; a passage is described by the figure, in
\* millions of dollars, that each of the three dollarPatterns matches in it
\* (Null when the pattern does not match there).
Passage(m1, m2, m3) == <<m1, m2, m3>>
Passages ==
    {Passage(Null, Null, Null),                \* "the market is growing"
     Passage(Some(5000), Null, Null),          \* "$5 billion"
     Passage(Null, Some(300), Null),           \* "300 million dollars"
     Passage(Null, Null, Some(2000)),          \* "USD 2B"
     Passage(Some(7000), Some(7000), Null),    \* "$7 billion dollars"
     Passage(Some(20000), Null, Null)}         \* "$20 billion"
FigureTexts == UNION {[1..n -> Passages] : n \in 0..MaxTextTokens}

\* RegExp.prototype.exec on a global pattern: the next match after the
\* cursor, which moves past it; without a match the cursor returns to 0
exec(pattern, text, cursor) ==
    LET found == {i \in 1..Len(text) : i > cursor /\ text[i][pattern] # Null}
    IN IF found = {}
       THEN [match |-> Null, lastIndex |-> 0]
       ELSE LET i == CHOOSE k \in found : \A j \in found : k <= j
            IN [match |-> Some(text[i][pattern][1]), lastIndex |-> i]
\* lines 38-48: while ((match = pattern.exec(text)) !== null) figures.push(...)
RECURSIVE scanWhile(_, _, _)
scanWhile(pattern, text, cursor) ==
    LET r == exec(pattern, text, cursor)
    IN IF r.match = Null
       THEN [figures |-> <<>>, lastIndex |-> r.lastIndex]
       ELSE LET rest == scanWhile(pattern, text, r.lastIndex)
            IN [figures |-> <<r.match[1]>> \o rest.figures,
                lastIndex |-> rest.lastIndex]
\* one exec from wherever the cursor was left
scanOnceFromCursor(pattern, text, cursor) ==
    LET r == exec(pattern, text, cursor)
    IN [figures |-> IF r.match = Null THEN <<>> ELSE <<r.match[1]>>,
        lastIndex |-> r.lastIndex]
\* lines 36-48: the cursor is reset, then the pattern is scanned to the end
scanPattern(pattern, text, cursor) == scanWhile(pattern, text, 0)
\* extractDollarFigures, lines 33-52, from the cursors the patterns hold
extractDollarFigures(text, cursors) ==
    LET scans == [p \in 1..3 |-> scanPattern(p, text, cursors[p])]
    IN [figures |-> scans[1].figures \o scans[2].figures \o scans[3].figures,
        lastIndex |-> [p \in 1..3 |-> scans[p].lastIndex]]

FiguresOnly ==
    UNCHANGED <<reportVars, limiterVars, retryVars, searchVars, communityVars,
                competitorVars, outlierVars, marketVars,
                pricingVars, topicVars,
                clientVars>>
FiguresInit ==
    /\ ReportIdle
    /\ ClientIdle
    /\ LimiterIdle
    /\ RetryIdle
    /\ SearchIdle
    /\ CommunitiesIdle
    /\ CompetitorsIdle
    /\ OutliersIdle
    /\ MarketIdle
    /\ PricingIdle
    /\ TopicsIdle
    /\ FiguresIdle

\* extractDollarFigures(text) is called and returns
CallExtractDollarFigures ==
    /\ figureCalls < MaxFigureCalls
    /\ \E text \in FigureTexts :
          LET r == extractDollarFigures(text, lastIndex)
          IN /\ figureText' = text
             /\ figureResult' = r.figures
             /\ lastIndex' = r.lastIndex
    /\ figureCalls' = figureCalls + 1
    /\ FiguresOnly

FiguresNext ==
    \/ CallExtractDollarFigures
SpecFigures == FiguresInit /\ [][FiguresNext]_vars

\* the figures of a text: every match of the first pattern, then of the
\* second, then of the third, each in text order
MatchesOf(text, pattern) ==
    LET at == SelectSeq([i \in 1..Len(text) |-> text[i][pattern]],
                        LAMBDA m : m # Null)
    IN [i \in 1..Len(at) |-> at[i][1]]
FiguresOfText(text) == MatchesOf(text, 1) \o MatchesOf(text, 2) \o MatchesOf(text, 3)

\* C20: whatever was processed before, a call returns the figures of its own
\* text, and between calls every pattern's cursor is at 0.
C20_Stateless ==
    /\ \A p \in 1..3 : lastIndex[p] = 0
    /\ figureCalls > 0 => figureResult = FiguresOfText(figureText)

\* reached: a third call, on a text whose matches come before the place where
\* the previous text's last match ended, returned them all
C20_Witness ==
    /\ figureCalls = 3
    /\ figureText = <<Passage(Some(5000), Null, Null), Passage(Null, Null, Null)>>
    /\ figureResult = <<5000>>

\* ======================================================================
\* filterOutliers (src/src/tools/estimate-market-size.ts, lines 60-70)
\* ======================================================================
\* the longest list filterOutliers is called with
MaxFigures == 4
\* market figures, in millions of dollars
FigureValues == {0, 1, 5, 10, 100, 1000, 10000}

\* [...values].sort((a, b) => a - b)
RECURSIVE sortAscending(_)
sortAscending(values) ==
    IF values = <<>> THEN <<>>
    ELSE LET x == values[Len(values)]
             before == sortAscending(SubSeq(values, 1, Len(values) - 1))
         IN SelectSeq(before, LAMBDA v : v <= x) \o <<x>>
                \o SelectSeq(before, LAMBDA v : v > x)
\* lines 63-66, twice the median (the median of an even-length list can be a
\* half)
twiceMedian(sorted) ==
    LET mid == Len(sorted) \div 2
    IN IF Len(sorted) % 2 # 0
       THEN 2 * sorted[mid + 1]
       ELSE sorted[mid] + sorted[mid + 1]
\* line 67: v >= median / 10 && v <= median * 10
withinMedianBand(v, median2) == 20 * v >= median2 /\ 2 * v <= 10 * median2
\* filterOutliers without the fallback of line 69
filterOutliersNoFallback(values) ==
    IF Len(values) < 3 THEN values
    ELSE LET sorted == sortAscending(values)
         IN SelectSeq(sorted, LAMBDA v : withinMedianBand(v, twiceMedian(sorted)))
\* filterOutliers, lines 60-70
filterOutliers(values) ==
    IF Len(values) < 3 THEN values
    ELSE LET sorted == sortAscending(values)
             median2 == twiceMedian(sorted)
             filtered == SelectSeq(sorted, LAMBDA v : withinMedianBand(v, median2))
         IN IF Len(filtered) >= 2 THEN filtered ELSE SubSeq(sorted, 1, 2)

OutliersOnly ==
    UNCHANGED <<reportVars, limiterVars, retryVars, searchVars, communityVars,
                competitorVars, figureVars, marketVars,
                pricingVars, topicVars,
                clientVars>>
\* filterOutliers is about to be called with some list of figures
OutliersInit ==
    /\ ReportIdle
    /\ ClientIdle
    /\ LimiterIdle
    /\ RetryIdle
    /\ SearchIdle
    /\ CommunitiesIdle
    /\ CompetitorsIdle
    /\ FiguresIdle
    /\ MarketIdle
    /\ PricingIdle
    /\ TopicsIdle
    /\ outlierValues \in UNION {[1..n -> FigureValues] : n \in 0..MaxFigures}
    /\ outlierResult = Null

\* filterOutliers(values) returns
CallFilterOutliers ==
    /\ outlierResult = Null
    /\ outlierResult' = Some(filterOutliers(outlierValues))
    /\ UNCHANGED outlierValues
    /\ OutliersOnly

OutliersNext ==
    \/ CallFilterOutliers
SpecOutliers == OutliersInit /\ [][OutliersNext]_vars

\* how often x occurs in a list, and the k-th smallest entry of a list
CountIn(list, x) == Cardinality({i \in 1..Len(list) : list[i] = x})
KthSmallest(list, k) ==
    CHOOSE x \in Range(list) :
        /\ Cardinality({i \in 1..Len(list) : list[i] < x}) < k
        /\ Cardinality({i \in 1..Len(list) : list[i] <= x}) >= k
\* twice the median of a list
Median2(list) ==
    IF Len(list) % 2 = 1
    THEN 2 * KthSmallest(list, (Len(list) + 1) \div 2)
    ELSE KthSmallest(list, Len(list) \div 2) + KthSmallest(list, Len(list) \div 2 + 1)
\* x lies within [median / 10, median * 10]
InBand(list, x) == 20 * x >= Median2(list) /\ x <= 5 * Median2(list)

\* C17: a list of fewer than 3 values is returned unchanged; of a longer list
\* the values within [median/10, median*10] are returned when there are at
\* least 2, and otherwise its 2 smallest values; so the result has at least 2
\* values, each of them an input value.
C17_FilterOutliers ==
    outlierResult # Null =>
        LET values == outlierValues
            result == outlierResult[1]
            inBand == {i \in 1..Len(values) : InBand(values, values[i])}
        IN /\ Len(values) < 3 => result = values
           /\ Len(values) >= 3 =>
                 /\ Len(result) >= 2
                 /\ \A i \in 1..Len(result) : result[i] \in Range(values)
                 /\ \A i \in 1..(Len(result) - 1) : result[i] <= result[i + 1]
                 /\ Cardinality(inBand) >= 2 =>
                       \A x \in FigureValues :
                           CountIn(result, x) =
                               IF InBand(values, x) THEN CountIn(values, x) ELSE 0
                 /\ Cardinality(inBand) < 2 =>
                       result = <<KthSmallest(values, 1), KthSmallest(values, 2)>>

\* reached: only the median of 1, 100, 10000 lies within the band, and the two
\* smallest values are returned
C17_Witness ==
    /\ outlierValues = <<10000, 1, 100>>
    /\ outlierResult = Some(<<1, 100>>)

\* ======================================================================
\* estimateMarketSize (src/src/tools/estimate-market-size.ts, lines 96-337)
\* ======================================================================
\* A hit of a market-size search: its URL, its snippet (a text of dollar
\* passages), whether NARROW_INDICATORS and BROAD_INDICATORS match its title
\* and snippet, and the growth rate extractGrowthRate finds in the snippet.
MarketHit(url, snippet, hasNarrow, hasBroad, growth) ==
    [url |-> url, snippet |-> snippet, hasNarrow |-> hasNarrow,
     hasBroad |-> hasBroad, growth |-> growth]
K1 == MarketHit(<<"h", "1">>, <<Passage(Some(5000), Null, Null)>>, TRUE, FALSE, Null)
K2 == MarketHit(<<"h", "2">>, <<Passage(Some(7000), Some(7000), Null)>>,
                TRUE, FALSE, Some("7.5%"))
K3 == MarketHit(<<"h", "3">>, <<Passage(Some(5000), Null, Null)>>, TRUE, FALSE, Null)
K4 == MarketHit(<<"h", "4">>, <<Passage(Some(5000), Null, Null)>>, FALSE, TRUE, Null)
K5 == MarketHit(<<"h", "5">>,
                <<Passage(Null, Some(300), Null), Passage(Some(5000), Null, Null)>>,
                TRUE, TRUE, Some("12%"))
K6 == MarketHit(<<"h", "6">>, <<Passage(Null, Null, Null)>>, FALSE, FALSE, Some("3%"))
K7 == MarketHit(<<"H", "1", "/">>, <<Passage(Null, Null, Some(2000))>>,
                FALSE, TRUE, Null)
K8 == MarketHit(<<"h", "8">>, <<Passage(Null, Null, Some(2000))>>, TRUE, FALSE, Null)
K9 == MarketHit(<<"h", "9">>, <<Passage(Some(20000), Null, Null)>>, FALSE, FALSE, Null)
\* what a provider can answer a market-size query with
MarketResponses ==
    {<<>>, <<K1, K2, K3>>, <<K8, K4>>, <<K6>>, <<K7, K5>>, <<K9>>}
MarketSettlements ==
    {Fulfilled(r) : r \in MarketResponses} \cup {Rejected(e) : e \in ProviderErrors}

\* a runSearch that lets a failure of Tavily escape
marketRunSearchRethrow(braveSettled, tavilySettled) ==
    IF braveClient /\ answered(braveSettled)
    THEN Fulfilled([results |-> braveSettled.value, error |-> Null])
    ELSE IF tavilyClient
         THEN IF tavilySettled.status = "fulfilled"
              THEN Fulfilled([results |-> tavilySettled.value, error |-> Null])
              ELSE Rejected(tavilySettled.reason)
         ELSE SearchFallthrough("runSearch", Null)
\* runSearch, lines 144-180, as a function of its providers' settlements
marketRunSearch(braveSettled, tavilySettled) ==
    IF braveClient /\ answered(braveSettled)
    THEN Fulfilled([results |-> braveSettled.value, error |-> Null])
    ELSE IF tavilyClient
         THEN IF tavilySettled.status = "fulfilled"
              THEN Fulfilled([results |-> tavilySettled.value, error |-> Null])
              ELSE TavilyFailed("runSearch", tavilySettled.reason)
         ELSE SearchFallthrough("runSearch", Null)
\* the provider calls one runSearch makes
marketCallsOf(query, braveSettled, tavilySettled) ==
    (IF braveClient
     THEN <<[query |-> query, provider |-> "brave", status |-> braveSettled.status]>>
     ELSE <<>>)
        \o (IF tavilyClient /\ ~(braveClient /\ answered(braveSettled))
            THEN <<[query |-> query, provider |-> "tavily",
                    status |-> tavilySettled.status]>>
            ELSE <<>>)

\* lines 203-211: the first result of every normalised URL
RECURSIVE seenUrlsFrom(_, _)
seenUrlsFrom(results, seenUrls) ==
    IF results = <<>> THEN <<>>
    ELSE LET normalized == NormalizeUrl(Head(results).url)
         IN IF normalized \in seenUrls
            THEN seenUrlsFrom(Tail(results), seenUrls)
            ELSE <<Head(results)>>
                     \o seenUrlsFrom(Tail(results), seenUrls \cup {normalized})

\* classifyScope, lines 96-105
classifyScope(hit) ==
    IF hit.hasNarrow /\ ~hit.hasBroad THEN "narrow" ELSE "broad"

\* a formatted amount: the unit and the number of tenths printed before it
Amount(unit, tenths) == [unit |-> unit, tenths |-> tenths]
Unknown == Amount("Unknown", 0)
\* formatDollarAmount, lines 107-118, of a value in millions of dollars;
\* toFixed(1) rounds to the nearest tenth
formatDollarAmount(value) ==
    IF value >= 1000000 THEN Amount("trillion", (value + 50000) \div 100000)
    ELSE IF value >= 1000 THEN Amount("billion", (value + 50) \div 100)
    ELSE IF value >= 1 THEN Amount("million", value * 10)
    ELSE Amount("dollars", 0)

\* a calculateConfidence that ignores the scope mismatch; the spread is the
\* fraction spreadNum / spreadDen
calculateConfidenceNoCap(sourceCount, figureCount, spreadNum, spreadDen, hasScopeMismatch) ==
    IF sourceCount >= 3 /\ figureCount >= 3 /\ 2 * spreadNum < spreadDen
    THEN "high"
    ELSE IF sourceCount >= 2 /\ figureCount >= 2 /\ spreadNum < 2 * spreadDen
         THEN "medium"
         ELSE "low"
\* calculateConfidence, lines 120-140
calculateConfidence(sourceCount, figureCount, spreadNum, spreadDen, hasScopeMismatch) ==
    IF hasScopeMismatch
    THEN IF sourceCount >= 2 /\ figureCount >= 2 THEN "medium" ELSE "low"
    ELSE IF sourceCount >= 3 /\ figureCount >= 3 /\ 2 * spreadNum < spreadDen
         THEN "high"
         ELSE IF sourceCount >= 2 /\ figureCount >= 2 /\ spreadNum < 2 * spreadDen
              THEN "medium"
              ELSE "low"

\* the figures extractDollarFigures returns for a snippet
figuresOf(snippet) == extractDollarFigures(snippet, [p \in 1..3 |-> 0]).figures
\* lines 242-244: the first growth rate found
RECURSIVE firstGrowth(_)
firstGrowth(results) ==
    IF results = <<>> THEN Null
    ELSE IF Head(results).growth # Null THEN Head(results).growth
         ELSE firstGrowth(Tail(results))
\* lines 256-268: the outlier-filtered figures of one scope
scopeFigures(scopedFigures, scope) ==
    LET inScope == SelectSeq(scopedFigures, LAMBDA f : f.scope = scope)
    IN filterOutliers(sortAscending([i \in 1..Len(inScope) |-> inScope[i].value]))
ScopeMismatchNote ==
    "Figures span different market scopes (digital/platform vs total industry). The primary estimate uses the narrower digital/platform segment. See narrow_estimate and broad_estimate for the breakdown."
\* the object returned when nothing is known, lines 215-220 and 248-252
unknownEstimate(sources, message) ==
    [tam_estimate |-> [low |-> Unknown, high |-> Unknown,
                       narrow_estimate |-> Null, broad_estimate |-> Null],
     growth_rate |-> Null, sources |-> sources, confidence |-> "low",
     note |-> Null, message |-> message]

\* lines 228-245: the results in which extractDollarFigures finds figures
resultsWithFigures(allResults) ==
    SelectSeq(allResults, LAMBDA r : figuresOf(r.snippet) # <<>>)
\* lines 229-235: every figure with the scope of the result it was found in
scopedFiguresOf(withFigures) ==
    Concat([i \in 1..Len(withFigures) |->
               LET figures == figuresOf(withFigures[i].snippet)
               IN [k \in 1..Len(figures) |->
                      [value |-> figures[k],
                       scope |-> classifyScope(withFigures[i])]]])
\* lines 269-271
allValuesOf(scopedFigures) ==
    filterOutliers(sortAscending([i \in 1..Len(scopedFigures) |->
                                     scopedFigures[i].value]))
\* a primary group that is always the union
primaryFiguresAll(narrowFigures, broadFigures, allValues) == allValues
\* lines 274-279: narrow figures first, then broad, then all
primaryFiguresOf(narrowFigures, broadFigures, allValues) ==
    IF Len(narrowFigures) >= 2 THEN narrowFigures
    ELSE IF Len(broadFigures) >= 2 THEN broadFigures
         ELSE allValues
\* lines 288-301: the estimate of one scope, when it has figures
scopeEstimateOf(figures) ==
    IF Len(figures) >= 1
    THEN Some([low |-> formatDollarAmount(figures[1]),
               high |-> formatDollarAmount(figures[Len(figures)])])
    ELSE Null
\* lines 304-307
hasScopeMismatchOf(narrowFigures, broadFigures) ==
    /\ Len(narrowFigures) > 0
    /\ Len(broadFigures) > 0
    /\ broadFigures[Len(broadFigures)] > narrowFigures[Len(narrowFigures)] * 2

\* estimateMarketSize after the join, lines 202-337: the returned object,
\* given the locals it is computed from
estimateOf(error, allResults, withFigures, scopedFigures, narrowFigures, broadFigures, allValues, primaryFigures) ==
    LET sources == [i \in 1..Len(withFigures) |-> withFigures[i].url]
        low == primaryFigures[1]
        high == primaryFigures[Len(primaryFigures)]
        hasScopeMismatch == hasScopeMismatchOf(narrowFigures, broadFigures)
    IN IF allResults = <<>>
       THEN unknownEstimate(<<>>, IF error # Null THEN error
                                  ELSE Some("Search returned no results."))
       ELSE IF scopedFigures = <<>>
            THEN unknownEstimate(SliceTo(sources, 5), Null)
            ELSE [tam_estimate |->
                     [low |-> formatDollarAmount(low),
                      high |-> formatDollarAmount(high),
                      narrow_estimate |-> scopeEstimateOf(narrowFigures),
                      broad_estimate |-> scopeEstimateOf(broadFigures)],
                  growth_rate |-> firstGrowth(allResults),
                  sources |-> SliceTo(sources, 5),
                  confidence |->
                     calculateConfidence(Len(sources), Len(primaryFigures),
                                         IF high > 0 THEN high - low ELSE 0,
                                         IF high > 0 THEN high ELSE 1,
                                         hasScopeMismatch),
                  note |-> IF hasScopeMismatch THEN Some(ScopeMismatchNote)
                           ELSE Null,
                  message |-> Null]

MarketOnly ==
    UNCHANGED <<reportVars, limiterVars, retryVars, spc, queryNo, searchKind,
                braveClient, tavilyClient, providerCalls, providerOutcomes,
                searchLastError, searchResult, communityVars, competitorVars,
                figureVars, outlierVars,
                pricingVars, topicVars,
                clientVars>>

\* lines 187-200: estimateMarketSize is entered; both searches are started
MarketInit ==
    /\ ReportIdle
    /\ ClientIdle
    /\ LimiterIdle
    /\ RetryIdle
    /\ CommunitiesIdle
    /\ CompetitorsIdle
    /\ FiguresIdle
    /\ OutliersIdle
    /\ PricingIdle
    /\ TopicsIdle
    /\ spc = "idle"
    /\ queryNo = 0
    /\ searchKind = "runSearch"
    /\ braveClient \in BOOLEAN
    /\ tavilyClient \in BOOLEAN
    /\ providerCalls = <<>>
    /\ providerOutcomes = <<>>
    /\ searchLastError = Null
    /\ searchResult = Pending
    /\ mpc = "search"
    /\ narrowSettled = Pending
    /\ broadSettled = Pending
    /\ marketCalls = <<>>
    /\ msLocals = Null
    /\ msResult = Pending

\* runSearch(narrowQuery, 10) settles
NarrowSearchSettles ==
    /\ mpc = "search"
    /\ narrowSettled = Pending
    /\ \E b \in MarketSettlements, t \in MarketSettlements :
          /\ narrowSettled' = marketRunSearch(b, t)
          /\ marketCalls' = marketCalls \o marketCallsOf("narrow", b, t)
    /\ UNCHANGED <<mpc, broadSettled, msLocals, msResult>>
    /\ MarketOnly

\* runSearch(broadQuery, 5) settles
BroadSearchSettles ==
    /\ mpc = "search"
    /\ broadSettled = Pending
    /\ \E b \in MarketSettlements, t \in MarketSettlements :
          /\ broadSettled' = marketRunSearch(b, t)
          /\ marketCalls' = marketCalls \o marketCallsOf("broad", b, t)
    /\ UNCHANGED <<mpc, narrowSettled, msLocals, msResult>>
    /\ MarketOnly

\* Promise.all: the values when all fulfilled, else the first rejection
PromiseAll(results) ==
    IF \E i \in 1..Len(results) : results[i].status = "rejected"
    THEN Rejected(SelectSeq(results, LAMBDA o : o.status = "rejected")[1].reason)
    ELSE Fulfilled([i \in 1..Len(results) |-> results[i].value])

\* lines 197-337: both searches have settled and estimateMarketSize returns
EstimateReturns ==
    /\ mpc = "search"
    /\ narrowSettled # Pending
    /\ broadSettled # Pending
    /\ LET joined == PromiseAll(<<narrowSettled, broadSettled>>)
       IN IF joined.status = "rejected"
          THEN /\ msResult' = joined
               /\ msLocals' = Null
          ELSE \E narrowResult \in {joined.value[1]}, broadResult \in {joined.value[2]} :
               \E allResults \in {seenUrlsFrom(narrowResult.results
                                                 \o broadResult.results, {})} :
               \E withFigures \in {resultsWithFigures(allResults)} :
               \E scopedFigures \in {scopedFiguresOf(withFigures)} :
               \E narrowFigures \in {scopeFigures(scopedFigures, "narrow")},
                  broadFigures \in {scopeFigures(scopedFigures, "broad")},
                  allValues \in {allValuesOf(scopedFigures)} :
               \E primaryFigures \in
                      {primaryFiguresOf(narrowFigures, broadFigures, allValues)} :
                  /\ msResult' =
                        Fulfilled(estimateOf(
                            IF narrowResult.error # Null THEN narrowResult.error
                            ELSE broadResult.error,
                            allResults, withFigures, scopedFigures, narrowFigures,
                            broadFigures, allValues, primaryFigures))
                  /\ msLocals' =
                        IF scopedFigures = <<>> THEN Null
                        ELSE Some([sourceCount |-> Len(withFigures),
                                   narrowFigures |-> narrowFigures,
                                   broadFigures |-> broadFigures,
                                   allValues |-> allValues,
                                   primaryFigures |-> primaryFigures,
                                   hasScopeMismatch |->
                                       hasScopeMismatchOf(narrowFigures, broadFigures)])
    /\ mpc' = "done"
    /\ UNCHANGED <<narrowSettled, broadSettled, marketCalls>>
    /\ MarketOnly

MarketNext ==
    \/ NarrowSearchSettles
    \/ BroadSearchSettles
    \/ EstimateReturns
SpecMarket == MarketInit /\ [][MarketNext]_vars

MarketDone == mpc = "done"
\* no hit came back from either search
NoMarketHits ==
    /\ narrowSettled.status = "fulfilled" => narrowSettled.value.results = <<>>
    /\ broadSettled.status = "fulfilled" => broadSettled.value.results = <<>>

\* C15: estimateMarketSize never throws on provider problems; without a
\* provider, with every provider call failing, or with no hit at all, it
\* resolves with "Unknown"/"Unknown", confidence "low", no sources and a
\* message.
C15_SoftFailure ==
    /\ msResult.status # "rejected"
    /\ MarketDone => msResult.status = "fulfilled"
    /\ (MarketDone
          /\ \/ (~braveClient /\ ~tavilyClient)
             \/ (\A i \in 1..Len(marketCalls) : marketCalls[i].status = "rejected")
             \/ NoMarketHits) =>
          /\ msResult.status = "fulfilled"
          /\ msResult.value.tam_estimate.low = Unknown
          /\ msResult.value.tam_estimate.high = Unknown
          /\ msResult.value.confidence = "low"
          /\ msResult.value.sources = <<>>
          /\ msResult.value.message # Null

\* reached: both providers are configured, all four calls failed, and the
\* Unknown estimate is returned with the error as message
C15_Witness ==
    /\ MarketDone
    /\ braveClient
    /\ tavilyClient
    /\ Len(marketCalls) = 4
    /\ \A i \in 1..4 : marketCalls[i].status = "rejected"
    /\ msResult.status = "fulfilled"
    /\ msResult.value.tam_estimate.low = Unknown
    /\ msResult.value.message = Some("API error: 500")

\* C16: confidence is "high" only without a scope mismatch, with at least 3
\* sources that yielded figures, at least 3 figures in the primary group and a
\* spread (high - low) / high below 0.5; with a scope mismatch flagged it is
\* "medium" or "low".
C16_HighConfidence ==
    MarketDone =>
        LET r == msResult.value
        IN /\ msLocals = Null => r.confidence = "low" /\ r.note = Null
           /\ msLocals # Null =>
                 LET primary == msLocals[1].primaryFigures
                     low == primary[1]
                     high == primary[Len(primary)]
                 IN /\ msLocals[1].hasScopeMismatch <=> r.note # Null
                    /\ r.note # Null => r.confidence \in {"medium", "low"}
                    /\ r.confidence = "high" =>
                          /\ r.note = Null
                          /\ msLocals[1].sourceCount >= 3
                          /\ Len(primary) >= 3
                          /\ high > 0 => 2 * (high - low) < high

\* reached: three narrow sources with figures between $5 and $7 billion give
\* confidence "high"
C16_Witness ==
    /\ MarketDone
    /\ msLocals # Null
    /\ msLocals[1].sourceCount = 3
    /\ msLocals[1].primaryFigures = <<5000, 5000, 7000, 7000>>
    /\ ~msLocals[1].hasScopeMismatch
    /\ msResult.value.confidence = "high"

\* a formatted amount in tenths of a million dollars
AmountTenths(amount) ==
    CASE amount.unit = "trillion" -> amount.tenths * 1000000
      [] amount.unit = "billion" -> amount.tenths * 1000
      [] amount.unit = "million" -> amount.tenths
      [] OTHER -> 0

\* C25: the reported range is [min, max] of the outlier-filtered narrow
\* figures when there are at least 2 of them, else of the outlier-filtered
\* broad figures when there are at least 2, else of the outlier-filtered
\* union; the reported low is never greater than the reported high.
C25_PrimaryRange ==
    (MarketDone /\ msLocals # Null) =>
        LET l == msLocals[1]
            r == msResult.value.tam_estimate
            group == IF Len(l.narrowFigures) >= 2 THEN l.narrowFigures
                     ELSE IF Len(l.broadFigures) >= 2 THEN l.broadFigures
                          ELSE l.allValues
        IN /\ group # <<>>
           /\ \A i \in 1..Len(group) : group[1] <= group[i] /\ group[i] <= group[Len(group)]
           /\ r.low = formatDollarAmount(group[1])
           /\ r.high = formatDollarAmount(group[Len(group)])
           /\ AmountTenths(r.low) <= AmountTenths(r.high)

\* reached: one narrow figure and two broad ones, and the range reported is
\* that of the broad figures, $5.0 billion to $20.0 billion
C25_Witness ==
    /\ MarketDone
    /\ msLocals # Null
    /\ Len(msLocals[1].narrowFigures) = 1
    /\ msLocals[1].broadFigures = <<5000, 20000>>
    /\ msResult.value.tam_estimate.low = Amount("billion", 50)
    /\ msResult.value.tam_estimate.high = Amount("billion", 200)

\* C26: when the scope-mismatch note is attached, narrow_estimate and
\* broad_estimate are both present and tam_estimate.low/high equal
\* narrow_estimate.low/high.
C26_NoteMeansNarrowPrimary ==
    (MarketDone /\ msResult.status = "fulfilled" /\ msResult.value.note # Null) =>
        LET r == msResult.value.tam_estimate
        IN /\ r.narrow_estimate # Null
           /\ r.broad_estimate # Null
           /\ r.low = r.narrow_estimate[1].low
           /\ r.high = r.narrow_estimate[1].high

\* C28: the message of estimateMarketSize says that no search provider is
\* configured only when neither Brave nor Tavily is configured.
C28_NoProviderOnlyIfNone ==
    (MarketDone /\ msResult.status = "fulfilled"
        /\ msResult.value.message = Some(NoProviderMessage)) =>
        (~braveClient /\ ~tavilyClient)

\* ------------------------------------------------------------------
\* extractPricing (src/unnamed/part_008) over fetchPricingPage
\* (src/src/services/web-fetcher.test.ts, lines 150-181)
\* ------------------------------------------------------------------
\* the most pricing tiers a fetched page shows
MaxTiers == 1

\* the candidate paths in another order
pricingPathsPlansFirst == <<"/plans", "/pricing", "/price", "/subscription">>
\* const pricingPaths, line 152
pricingPaths == <<"/pricing", "/price", "/plans", "/subscription">>

\* input.url: whether new URL(url) accepts it, and whether it contains one of
\* the pricing paths or "price"
PricingUrls == [parseable : BOOLEAN, looksPricing : BOOLEAN]

\* `${baseUrlClean}${path}`, line 168
PathUrl(baseUrl, path) == [base |-> baseUrl, path |-> path]

\* the markdown of a fetched page: how many tier sections it has and whether
\* it is longer than truncateMarkdown's maxLength
Page(tiers, long) == [tiers |-> tiers, long |-> long, truncated |-> FALSE]
Pages == {Page(t, l) : t \in 0..MaxTiers, l \in BOOLEAN}

\* interface FetchResult
FetchResult(url, markdown, statusCode) ==
    [url |-> url, markdown |-> markdown, statusCode |-> statusCode]

\* what fetchAsMarkdown(url) can settle with: fetch() rejects a URL it cannot
\* parse, a response that is not ok is thrown as an HTTP error, and an ok
\* response (200..299) is returned with its status
FetchSettlements(url, parseable) ==
    IF ~parseable
    THEN {Rejected("Invalid URL")}
    ELSE {Fulfilled(FetchResult(url, page, status)) :
              page \in Pages, status \in {200, 203}}
         \cup {Rejected("HTTP error: 404 Not Found"), Rejected("fetch failed")}

\* extractStructuredPricing, lines 47-123: the tiers of the page
extractStructuredPricing(markdown) ==
    [tiers |-> markdown.tiers, has_tiers |-> markdown.tiers > 0]

\* truncateMarkdown, lines 176-190
truncateMarkdown(markdown) ==
    IF markdown.long THEN [markdown EXCEPT !.truncated = TRUE] ELSE markdown

\* generateExtractionHints, lines 125-174, without a competitor name
generateExtractionHints(markdown, structured) ==
    IF structured.tiers > 0
    THEN <<"Extracted tiers", structured.tiers>>
    ELSE <<"regex hints", markdown.tiers>>

\* the try block of extractPricing, lines 197-209
pricingOf(result) ==
    LET structured == extractStructuredPricing(result.markdown)
        markdown == truncateMarkdown(result.markdown)
    IN [url |-> result.url,
        markdown_content |-> Some(markdown),
        failure |-> Null,
        extraction_hints |-> generateExtractionHints(markdown, structured),
        structured_pricing |-> Some(structured)]

FetchFailedHints == <<"Could not fetch the pricing page.">>

\* an extractPricing without its catch block
onFetchErrorRethrow(url, errorMessage) ==
    Rejected(errorMessage)
\* the catch block of extractPricing, lines 210-220; markdown_content is
\* `Failed to fetch pricing page: ${errorMessage}`
onFetchError(url, errorMessage) ==
    Fulfilled([url |-> url,
               markdown_content |-> Null,
               failure |-> Some(<<"Failed to fetch pricing page: ", errorMessage>>),
               extraction_hints |-> FetchFailedHints,
               structured_pricing |-> Null])

\* how extractPricing settles once fetchPricingPage has
settlePricing(url, settled) ==
    IF settled.status = "fulfilled"
    THEN Fulfilled(pricingOf(settled.value))
    ELSE onFetchError(url, settled.reason)

PricingOnly ==
    UNCHANGED <<reportVars, limiterVars, retryVars, searchVars, communityVars,
                competitorVars, figureVars, outlierVars, marketVars, topicVars,
                clientVars>>

PricingInit ==
    /\ ReportIdle
    /\ ClientIdle
    /\ LimiterIdle
    /\ RetryIdle
    /\ SearchIdle
    /\ CommunitiesIdle
    /\ CompetitorsIdle
    /\ FiguresIdle
    /\ OutliersIdle
    /\ MarketIdle
    /\ TopicsIdle
    /\ ppc = "start"
    /\ pricingUrl \in PricingUrls
    /\ pathIndex = 0
    /\ fetchTrace = <<>>
    /\ epResult = Pending

\* fetchPricingPage up to its first fetch, lines 150-165 of web-fetcher: a pricing-looking
\* URL is fetched as it is, new URL(baseUrl) throws on an unparseable one
CallFetchPricingPage ==
    /\ ppc = "start"
    /\ IF pricingUrl.looksPricing
       THEN /\ ppc' = "original"
            /\ UNCHANGED <<pathIndex, epResult>>
       ELSE IF ~pricingUrl.parseable
            THEN /\ ppc' = "done"
                 /\ epResult' = onFetchError(pricingUrl, "Invalid URL")
                 /\ UNCHANGED pathIndex
            ELSE /\ ppc' = "paths"
                 /\ pathIndex' = 1
                 /\ UNCHANGED epResult
    /\ UNCHANGED <<pricingUrl, fetchTrace>>
    /\ PricingOnly

\* one turn of the loop over pricingPaths, lines 166-177
PathFetchSettles ==
    /\ ppc = "paths"
    /\ LET url == PathUrl(pricingUrl, pricingPaths[pathIndex])
       IN \E settled \in FetchSettlements(url, TRUE) :
            /\ fetchTrace' = Append(fetchTrace, [url |-> url, settled |-> settled])
            /\ IF settled.status = "fulfilled" /\ settled.value.statusCode = 200
               THEN /\ ppc' = "done"
                    /\ epResult' = settlePricing(pricingUrl, settled)
                    /\ UNCHANGED pathIndex
               ELSE /\ UNCHANGED epResult
                    /\ IF pathIndex < Len(pricingPaths)
                       THEN /\ pathIndex' = pathIndex + 1
                            /\ UNCHANGED ppc
                       ELSE /\ ppc' = "original"
                            /\ UNCHANGED pathIndex
    /\ UNCHANGED pricingUrl
    /\ PricingOnly

\* return fetchAsMarkdown(baseUrl), lines 160 and 180
OriginalFetchSettles ==
    /\ ppc = "original"
    /\ \E settled \in FetchSettlements(pricingUrl, pricingUrl.parseable) :
         /\ fetchTrace' = Append(fetchTrace, [url |-> pricingUrl, settled |-> settled])
         /\ epResult' = settlePricing(pricingUrl, settled)
    /\ ppc' = "done"
    /\ UNCHANGED <<pricingUrl, pathIndex>>
    /\ PricingOnly

PricingNext == CallFetchPricingPage \/ PathFetchSettles \/ OriginalFetchSettles

SpecPricing == PricingInit /\ [][PricingNext]_vars

PricingDone == ppc = "done"
\* fetchPricingPage failed: the input could not be parsed, or the last fetch,
\* the one of the original URL, was rejected
PricingFetchFailed ==
    \/ fetchTrace = <<>>
    \/ /\ fetchTrace # <<>>
       /\ fetchTrace[Len(fetchTrace)].settled.status = "rejected"
PricingFailureReason ==
    IF fetchTrace = <<>> THEN "Invalid URL"
    ELSE fetchTrace[Len(fetchTrace)].settled.reason

\* C18: extractPricing never rejects; whatever the fetches did, it resolves
\* with a result object, and on failure that object has the input url, no
\* structured_pricing and the failure reason in markdown_content.
C18_PricingNeverRejects ==
    /\ epResult.status # "rejected"
    /\ PricingDone =>
          /\ epResult.status = "fulfilled"
          /\ PricingFetchFailed =>
                /\ epResult.value.url = pricingUrl
                /\ epResult.value.structured_pricing = Null
                /\ epResult.value.failure # Null
                /\ epResult.value.failure[1][2] = PricingFailureReason

\* reached: the four candidate paths and the original URL all failed, and the
\* degraded result is returned
C18_Witness ==
    /\ PricingDone
    /\ Len(fetchTrace) = 5
    /\ \A i \in 1..5 : fetchTrace[i].settled.status = "rejected"
    /\ epResult.status = "fulfilled"
    /\ epResult.value.url = pricingUrl
    /\ epResult.value.structured_pricing = Null

\* the order in which the candidate paths are to be tried
CandidateOrder == <<"/pricing", "/price", "/plans", "/subscription">>
\* the k-th fetch went to the URL the order prescribes: the four candidate
\* paths on the host of the input URL, then the input URL itself
FetchedInOrder ==
    \A k \in 1..Len(fetchTrace) :
        /\ k <= 5
        /\ fetchTrace[k].url = IF k <= 4 THEN PathUrl(pricingUrl, CandidateOrder[k])
                               ELSE pricingUrl
\* a URL that looks pricing-related is the only one fetched
PricingUrlFetchedAlone ==
    pricingUrl.looksPricing =>
        /\ Len(fetchTrace) <= 1
        /\ \A k \in 1..Len(fetchTrace) : fetchTrace[k].url = pricingUrl
        /\ PricingDone => Len(fetchTrace) = 1
\* the fetch answered with status 200
Answered200(entry) ==
    entry.settled.status = "fulfilled" /\ entry.settled.value.statusCode = 200

\* C27 as stated: a later path or the original URL is fetched only after every
\* earlier fetch failed, and the first fetch that succeeds is what is returned.
C27_FirstSuccessReturned ==
    /\ PricingUrlFetchedAlone
    /\ ~pricingUrl.looksPricing =>
          /\ FetchedInOrder
          /\ \A k \in 1..Len(fetchTrace) : \A j \in 1..(k - 1) :
                fetchTrace[j].settled.status = "rejected"

\* C27, amended: for a URL that does not look pricing-related the candidate
\* paths are fetched in the order /pricing, /price, /plans, /subscription; a
\* later path or the original URL is fetched only after every earlier fetch
\* was rejected or answered with a status other than 200; the first path
\* answering 200 is returned and nothing is fetched after it.  A URL that
\* looks pricing-related is the only URL fetched.
C27_First200Returned ==
    /\ PricingUrlFetchedAlone
    /\ ~pricingUrl.looksPricing =>
          /\ FetchedInOrder
          /\ \A k \in 1..Len(fetchTrace) : \A j \in 1..(k - 1) :
                ~Answered200(fetchTrace[j])
          /\ \A k \in 1..Len(fetchTrace) :
                (k <= 4 /\ Answered200(fetchTrace[k])) =>
                    /\ k = Len(fetchTrace)
                    /\ PricingDone
                    /\ epResult.status = "fulfilled"
                    /\ epResult.value.url = PathUrl(pricingUrl, CandidateOrder[k])
          /\ (PricingDone /\ pricingUrl.parseable) =>
                \/ Len(fetchTrace) = 5
                \/ Answered200(fetchTrace[Len(fetchTrace)])

\* reached: /pricing was rejected, /price answered 203, /plans answered 200
\* and is returned; /subscription and the original URL were never fetched
C27_Witness ==
    /\ PricingDone
    /\ ~pricingUrl.looksPricing
    /\ Len(fetchTrace) = 3
    /\ fetchTrace[1].settled.status = "rejected"
    /\ fetchTrace[2].settled.status = "fulfilled"
    /\ fetchTrace[2].settled.value.statusCode = 203
    /\ Answered200(fetchTrace[3])
    /\ epResult.status = "fulfilled"
    /\ epResult.value.url = PathUrl(pricingUrl, "/plans")

\* ------------------------------------------------------------------
\* deriveTopics and the topics fullResearchReport passes on
\* (src/src/tools/full-research-report.ts, lines 16-69 and 180-183)
\* ------------------------------------------------------------------
\* the most words in a business idea
MaxIdeaWords == 5

\* the cap of deriveTopics: topics.slice(0, 5)
TopicCap == 5

\* a word as typed: its letters in lower case, and whether it was typed with
\* capitals
Word(stem, caps) == [stem |-> stem, caps |-> caps]

\* const STOP_WORDS, lines 16-20
STOP_WORDS ==
    {"a", "an", "the", "for", "and", "or", "of", "in", "to", "that",
     "with", "is", "are", "on", "it", "as", "at", "by", "be", "do",
     "we", "my", "our", "your", "this", "from", "into", "was"}

\* the words business ideas and product types are written with
Vocabulary ==
    {Word("team", FALSE), Word("team", TRUE), Word("tool", FALSE),
     Word("wash", FALSE), Word("car", FALSE), Word("for", FALSE)}

\* w.length
WordLength(w) ==
    CASE w.stem = "team" -> 4
      [] w.stem = "tool" -> 4
      [] w.stem = "wash" -> 4
      [] w.stem = "saas" -> 4
      [] w.stem = "car" -> 3
      [] w.stem = "for" -> 3

BusinessIdeas == UNION {[1..n -> Vocabulary] : n \in 0..MaxIdeaWords}

ProductTypes ==
    {Null, Some(<<Word("team", FALSE)>>), Some(<<Word("team", TRUE)>>),
     Some(<<Word("saas", TRUE)>>)}

\* String.prototype.toLowerCase on a phrase
toLowerCase(phrase) == [i \in 1..Len(phrase) |-> Word(phrase[i].stem, FALSE)]

isStopWord(w) == w.stem \in STOP_WORDS

\* the bigram loop of deriveTopics, lines 44-55, from index i on
RECURSIVE pushBigrams(_, _, _)
pushBigrams(allWords, i, topics) ==
    IF i + 1 > Len(allWords)
    THEN topics
    ELSE LET bigram == <<allWords[i], allWords[i + 1]>>
         IN IF /\ bigram \notin Range(topics)
               /\ ~isStopWord(allWords[i])
               /\ ~isStopWord(allWords[i + 1])
            THEN pushBigrams(allWords, i + 1, Append(topics, bigram))
            ELSE pushBigrams(allWords, i + 1, topics)

\* the loop over the meaningful words, lines 62-67
RECURSIVE pushWords(_, _, _)
pushWords(words, bigramWords, topics) ==
    IF words = <<>>
    THEN topics
    ELSE LET w == Head(words)
         IN IF <<w>> \notin Range(topics) /\ w \notin bigramWords
            THEN pushWords(Tail(words), bigramWords, Append(topics, <<w>>))
            ELSE pushWords(Tail(words), bigramWords, topics)

\* deriveTopics, lines 25-69
deriveTopics(idea) ==
    LET cleaned == toLowerCase(idea)
        meaningful(w) == WordLength(w) > 3 /\ ~isStopWord(w)
        words == SelectSeq(cleaned, meaningful)
    IN IF words = <<>>
       THEN <<idea>>
       ELSE LET withBigrams == pushBigrams(cleaned, 1, <<cleaned>>)
                bigramWords == UNION {Range(withBigrams[k]) : k \in 2..Len(withBigrams)}
            IN SliceTo(pushWords(words, bigramWords, withBigrams), TopicCap)

TopicsOnly ==
    UNCHANGED <<reportVars, limiterVars, retryVars, searchVars, communityVars,
                competitorVars, figureVars, outlierVars, marketVars, pricingVars,
                clientVars>>

TopicsInit ==
    /\ ReportIdle
    /\ ClientIdle
    /\ LimiterIdle
    /\ RetryIdle
    /\ SearchIdle
    /\ CommunitiesIdle
    /\ CompetitorsIdle
    /\ FiguresIdle
    /\ OutliersIdle
    /\ MarketIdle
    /\ PricingIdle
    /\ tpc = "start"
    /\ businessIdea \in BusinessIdeas
    /\ productType \in ProductTypes
    /\ topicList = <<>>

\* const topics = deriveTopics(business_idea), line 180
CallDeriveTopics ==
    /\ tpc = "start"
    /\ topicList' = deriveTopics(businessIdea)
    /\ tpc' = "derived"
    /\ UNCHANGED <<businessIdea, productType>>
    /\ TopicsOnly

\* lines 181-183, after which topics is what findCommunities is called with
\* (line 198)
PushProductType ==
    /\ tpc = "derived"
    /\ topicList' =
          IF productType # Null /\ toLowerCase(productType[1]) \notin Range(topicList)
          THEN Append(topicList, toLowerCase(productType[1]))
          ELSE topicList
    /\ tpc' = "passed"
    /\ UNCHANGED <<businessIdea, productType>>
    /\ TopicsOnly

TopicsNext == CallDeriveTopics \/ PushProductType

SpecTopics == TopicsInit /\ [][TopicsNext]_vars

\* C19: the topics fullResearchReport passes to findCommunities number at
\* most 5, for every business idea and every product_type.
C19_AtMostFiveTopics ==
    tpc = "passed" => Len(topicList) <= 5

\* ------------------------------------------------------------------
\* fullResearchReport composed with extractPricing
\* (src/src/tools/full-research-report.ts, lines 207-237, calling
\* src/unnamed/part_008, lines 192-221)
\* ------------------------------------------------------------------
\* an extractPricing that lets the failure of fetchPricingPage through
extractPricingUncaught(url, fetched) ==
    IF fetched.status = "fulfilled"
    THEN Fulfilled(pricingOf(fetched.value))
    ELSE Rejected([isError |-> TRUE, message |-> fetched.reason])
\* extractPricing({ url: c.url, ... }), part_008 lines 192-221, given what
\* fetchPricingPage settled with
extractPricing(url, fetched) == settlePricing(url, fetched)

\* what fetchPricingPage(url) can settle with: the result of one of its
\* fetches, the failure of the last one, or the failure of new URL(url)
PricingPageSettlements(url) ==
    FetchSettlements(url, TRUE) \cup FetchSettlements(url, FALSE)

\* one extractPricing call of the report settles, lines 210-214
ExtractPricingSettles ==
    /\ rpc = "pricing"
    /\ \E i \in 1..Len(pricingSettled) :
          /\ pricingSettled[i] = Pending
          /\ \E fetched \in PricingPageSettlements(pricingCalls[i]) :
                pricingSettled' =
                    [pricingSettled EXCEPT ![i] = extractPricing(pricingCalls[i], fetched)]
    /\ UNCHANGED <<rpc, competitorsSettled, marketSizeSettled, communitiesSettled,
                   pricingCalls, report>>
    /\ ReportOnly

\* ------------------------------------------------------------------
\* BraveSearchClient.search (src/src/services/brave-search.ts, lines 35-73)
\* and TavilyClient.search (src/unnamed/part_002, lines 33-72): a call awaits
\* waitForSlot of the provider's limiter, then runs its request under
\* withRetry with the default options
\* ------------------------------------------------------------------
ClientOnly ==
    UNCHANGED <<reportVars, limiterVars, searchVars, communityVars, competitorVars,
                figureVars, outlierVars, marketVars, pricingVars, topicVars>>

\* the limiter as constructed, no call of search() made yet
ClientInit ==
    /\ ReportIdle
    /\ SearchIdle
    /\ CommunitiesIdle
    /\ CompetitorsIdle
    /\ FiguresIdle
    /\ OutliersIdle
    /\ MarketIdle
    /\ PricingIdle
    /\ TopicsIdle
    /\ RetryIdle
    /\ now = 0
    /\ maxRequests \in 1..MaxRequestsBound
    /\ timestamps = <<>>
    /\ waiter = [c \in Callers |-> "idle"]
    /\ wakeAt = [c \in Callers |-> 0]
    /\ granted = <<>>
    /\ enteredRetry = {}

\* brave-search.ts lines 39-41: waitForSlot has returned and search() calls
\* withRetry(fn) without options.  The retry loops of different calls do not
\* share state; they are run one after the other.
EnterWithRetry(c) ==
    /\ waiter[c] = "granted"
    /\ c \notin enteredRetry
    /\ rtpc \in {"idle", "returned", "thrown"}
    /\ enteredRetry' = enteredRetry \cup {c}
    /\ rtpc' = "loop"
    /\ maxAttempts' = DefaultMaxAttempts
    /\ attempt' = 1
    /\ delay' = DelayMs
    /\ lastError' = NoError
    /\ invoked' = 0
    /\ fnOutcomes' = <<>>
    /\ retryResult' = Pending
    /\ ClientOnly

ClientNext ==
    \/ Tick
    \/ \E c \in Callers : CallWaitForSlot(c)
    \/ \E c \in Callers : TimerFires(c)
    \/ \E c \in Callers : EnterWithRetry(c)
    \/ LoopTest
    \/ FnFulfils
    \/ FnRejects
    \/ BackoffElapsed
SpecClient == ClientInit /\ [][ClientNext]_vars

\* the search() calls that were given a slot
SlotHolders == {c \in Callers : waiter[c] = "granted"}

\* C30: a search() call takes a slot of the limiter exactly once, before its
\* first attempt; the further attempts of withRetry take none, so the slots
\* granted number the search() calls, not the requests sent.
C30_OneSlotPerSearchCall ==
    /\ Len(granted) = Cardinality(SlotHolders)
    /\ Len(granted) <= Cardinality({c \in Callers : waiter[c] # "idle"})
    /\ enteredRetry \subseteq SlotHolders
    /\ rtpc \notin {"idle"} => enteredRetry # {}
    /\ invoked > 0 => enteredRetry # {}

\* reached: one search() call was given one slot and sent three requests
C30_Witness ==
    /\ Len(granted) = 1
    /\ Cardinality(enteredRetry) = 1
    /\ invoked = 3
    /\ Len(fnOutcomes) = 3
    /\ rtpc = "thrown"

Init ==
    ReportInit /\ LimiterIdle /\ RetryIdle /\ SearchIdle /\ CommunitiesIdle /\ ToolsIdle
Next ==
    \/ StartBranches
    \/ SettleCompetitors
    \/ SettleMarketSize
    \/ SettleCommunities
    \/ JoinBranches
    \/ SettlePricing
    \/ JoinPricing
Spec == Init /\ [][Next]_vars

\* fullResearchReport with its extractPricing calls as extractPricing settles
ComposedNext ==
    \/ StartBranches
    \/ SettleCompetitors
    \/ SettleMarketSize
    \/ SettleCommunities
    \/ JoinBranches
    \/ ExtractPricingSettles
    \/ JoinPricing
SpecComposed == Init /\ [][ComposedNext]_vars

\* C29: with extractPricing as it is, the pricing section never fails: when
\* n >= 1 competitors were found, pricing.data has min(3, n) entries, degraded
\* ones included, pricing.error is absent and "pricing" is not among
\* failed_sections.
C29_PricingNeverFails ==
    (ReportReturned /\ competitorsSettled.status = "fulfilled"
        /\ Len(competitorsSettled.value) >= 1) =>
        LET n == Len(competitorsSettled.value)
            pricing == report.value.pricing
        IN /\ pricing.data # Null
           /\ Len(pricing.data[1]) = Min(3, n)
           /\ \A i \in 1..Min(3, n) :
                 pricing.data[1][i] = pricingSettled[i].value
           /\ pricing.error = Null
           /\ "pricing" \notin Range(report.value.summary.failed_sections)

\* reached: more than three competitors were found, the pricing page of each
\* of the top three could not be fetched, and the report holds three degraded
\* entries
C29_Witness ==
    /\ ReportReturned
    /\ competitorsSettled.status = "fulfilled"
    /\ Len(competitorsSettled.value) > 3
    /\ Len(report.value.pricing.data[1]) = 3
    /\ \A i \in 1..3 : report.value.pricing.data[1][i].failure # Null
    /\ report.value.pricing.error = Null

====
